---- MODULE Spec2Model ----
(***************************************************************************)
(* Phrase Collection Engine of PhraseTools (src/main_merged_qt5.py):       *)
(* HistoryManager, Folder, MainPhraseTable and the MainWindow handlers     *)
(* that keep lists, tabs, folders and the session in step.                 *)
(*                                                                         *)
(* Python lists are mutable objects that the program shares by reference   *)
(* (current_list.phrases = current_table.current_data, table.history =     *)
(* current_list.history, ...).  List objects therefore live in `heap`       *)
(* (address -> sequence of (text, frequency) tuples) and HistoryManager     *)
(* objects in `hists` (address -> record); a field holding a list or a      *)
(* history holds its address.  Address 0 is None.                           *)
(***************************************************************************)
EXTENDS Integers, Sequences, FiniteSets, TLC

VARIABLES
    heap,       \* list objects: address -> sequence of (text, frequency)
    hm,         \* a HistoryManager driven directly through its interface
    live,       \* address of its client's current list (current_data)
    ret,        \* address of the list the last call returned, or None
    op,         \* the call made last on hm
    before,     \* hm's length and cursor when that call was made
    given,      \* the states handed to hm since set_initial_state
    \* MainWindow
    hists,                  \* HistoryManager objects: address -> record
    phrase_lists,           \* self.phrase_lists: PhraseLists in dict order
    phrase_tabs,            \* self.phrase_tabs: the PhraseTab widgets in tab order
    tab_index,              \* self.phrase_tabs.currentIndex(), -1 without tabs
    prev_phrase_tab_index,  \* self._prev_phrase_tab_index
    stop_words_widget,      \* self.stop_words_widget.stop_words (local)
    general_stop,           \* self.general_stop.stop_words (global widget)
    folders_widget,         \* self.folders_widget.folders (local)
    general_folders,        \* self.general_folders.folders (global widget)
    global_stop_words,      \* self.global_stop_words
    global_folders,         \* self.global_folders
    loaders,                \* FileLoader threads that have not finished yet
    session,                \* the session file last written, or NoFile
    crashed,                \* the process was aborted by an exception in a slot
    event                   \* the handler that ran last, with what it was given

wvars == <<hists, phrase_lists, phrase_tabs, tab_index, prev_phrase_tab_index,
           stop_words_widget, general_stop, folders_widget, general_folders,
           global_stop_words, global_folders, loaders, session, crashed, event>>
vars == <<heap, hm, live, ret, op, before, given, hists, phrase_lists,
          phrase_tabs, tab_index, prev_phrase_tab_index, stop_words_widget,
          general_stop, folders_widget, general_folders, global_stop_words,
          global_folders, loaders, session, crashed, event>>

\* ------------------------------------------------------------------ bounds
\* Capacity handed to HistoryManager(max_history); the program's default is 50.
max_history == 3
\* Longest phrase list the model builds.
MaxLen == 2
\* Longest run of next steps that is remembered.
MaxTrail == 4
\* Longest list handed to a PhraseProcessor function.
MaxPhrases == 3

None == 0

\* ------------------------------------------------------------ sequences
Range(s) == {s[i] : i \in 1..Len(s)}

RECURSIVE SelectSeqBy(_, _)
\* [x for x in s if x \notin drop]
SelectSeqBy(s, drop) ==
    IF s = <<>> THEN <<>>
    ELSE IF Head(s) \in drop THEN SelectSeqBy(Tail(s), drop)
         ELSE <<Head(s)>> \o SelectSeqBy(Tail(s), drop)

RECURSIVE Dedup(_)
\* s without the later occurrences of each element
Dedup(s) ==
    IF s = <<>> THEN <<>>
    ELSE LET front == Dedup(SubSeq(s, 1, Len(s) - 1))
             last  == s[Len(s)]
         IN  IF last \in Range(front) THEN front ELSE Append(front, last)

IndexOf(s, x) == CHOOSE i \in 1..Len(s) : s[i] = x

\* ----------------------------------------------------------------- text
\* A text is a sequence of one-character strings.
Lower(c) == CASE c = "A" -> "a" [] c = "B" -> "b" [] OTHER -> c

\* str.lower()
lower(t) == [i \in 1..Len(t) |-> Lower(t[i])]

RECURSIVE lstrip(_)
lstrip(t) == IF t # <<>> /\ Head(t) = " " THEN lstrip(Tail(t)) ELSE t

RECURSIVE rstrip(_)
rstrip(t) ==
    IF t # <<>> /\ t[Len(t)] = " " THEN rstrip(SubSeq(t, 1, Len(t) - 1)) ELSE t

\* str.strip()
strip(t) == rstrip(lstrip(t))

\* ----------------------------------------------------------------- heap
\* The address a new object gets: the smallest one not in use.
NewRef(hp) ==
    CHOOSE r \in 1..(Cardinality(DOMAIN hp) + 1) : r \notin DOMAIN hp

\* A new list object holding val.
Alloc(hp, val) ==
    LET r == NewRef(hp) IN [heap |-> hp @@ (r :> val), ref |-> r]

\* Mutant: the "copy" is the object itself.
deepcopy_alias(hp, ref) == [heap |-> hp, ref |-> ref]

\* copy.deepcopy(list of tuples) and list.copy(): a new list object with the
\* same (immutable) tuples.
deepcopy(hp, ref) == Alloc(hp, hp[ref])

\* list.append(x), in place
ListAppend(hp, ref, x) == [hp EXCEPT ![ref] = Append(@, x)]

\* ------------------------------------------------------- HistoryManager
\* HistoryManager.__init__
\* (initial_state, a further deep copy that nothing ever reads, is left out)
NewHistory == [history |-> <<>>, current_index |-> -1]

\* Mutant: the deque has no maxlen.
DequeAppend_nocap(dq, x) == Append(dq, x)

\* deque(maxlen=max_history).append: a full deque drops its oldest element.
DequeAppend(dq, x) ==
    IF Len(dq) >= max_history THEN Append(Tail(dq), x) ELSE Append(dq, x)

\* HistoryManager.set_initial_state
set_initial_state(hp, h, state) ==
    LET c == deepcopy(hp, state)
    IN  [heap |-> c.heap,
         h    |-> [history |-> DequeAppend(<<>>, c.ref), current_index |-> 0]]

\* Mutant: the undone branch is kept.
add_state_keep(hp, h, state) ==
    LET c == deepcopy(hp, state)
        appended == DequeAppend(h.history, c.ref)
    IN  [heap |-> c.heap,
         h    |-> [h EXCEPT !.history = appended,
                            !.current_index = Len(appended) - 1]]

\* HistoryManager.add_state
add_state(hp, h, state) ==
    LET kept == IF Len(h.history) > h.current_index + 1
                THEN SubSeq(h.history, 1, h.current_index + 1)
                ELSE h.history
        c == deepcopy(hp, state)
        appended == DequeAppend(kept, c.ref)
    IN  [heap |-> c.heap,
         h    |-> [h EXCEPT !.history = appended,
                            !.current_index = Len(appended) - 1]]

\* Mutant: the guard lets the cursor leave the stack.
undo_unguarded(hp, h) ==
    IF h.current_index >= 0
    THEN LET i == h.current_index - 1
             c == IF i >= 0 THEN deepcopy(hp, h.history[i + 1])
                  ELSE [heap |-> hp, ref |-> None]
         IN  [heap |-> c.heap, h |-> [h EXCEPT !.current_index = i], ret |-> c.ref]
    ELSE [heap |-> hp, h |-> h, ret |-> None]

\* Mutant: returns the snapshot the cursor leaves.
undo_stale(hp, h) ==
    IF h.current_index > 0
    THEN LET c == deepcopy(hp, h.history[h.current_index + 1])
         IN  [heap |-> c.heap,
              h |-> [h EXCEPT !.current_index = h.current_index - 1],
              ret |-> c.ref]
    ELSE [heap |-> hp, h |-> h, ret |-> None]

\* HistoryManager.undo (history[i] of the code is history[i + 1] here)
undo(hp, h) ==
    IF h.current_index > 0
    THEN LET i == h.current_index - 1
             c == deepcopy(hp, h.history[i + 1])
         IN  [heap |-> c.heap, h |-> [h EXCEPT !.current_index = i], ret |-> c.ref]
    ELSE [heap |-> hp, h |-> h, ret |-> None]

\* Mutant: the guard lets the cursor pass the last snapshot.
redo_unguarded(hp, h) ==
    IF h.current_index < Len(h.history) - 1
    THEN LET i == h.current_index + 1
             c == deepcopy(hp, h.history[i + 1])
         IN  [heap |-> c.heap, h |-> [h EXCEPT !.current_index = i], ret |-> c.ref]
    ELSE [heap |-> hp, h |-> [h EXCEPT !.current_index = h.current_index + 1],
          ret |-> None]

\* HistoryManager.redo
redo(hp, h) ==
    IF h.current_index < Len(h.history) - 1
    THEN LET i == h.current_index + 1
             c == deepcopy(hp, h.history[i + 1])
         IN  [heap |-> c.heap, h |-> [h EXCEPT !.current_index = i], ret |-> c.ref]
    ELSE [heap |-> hp, h |-> h, ret |-> None]

\* HistoryManager.can_undo
can_undo(h) == h.current_index > 0

\* HistoryManager.can_redo
can_redo(h) == h.current_index < Len(h.history) - 1

\* The values of the stored snapshots, oldest first.
SnapVals(hp, h) == [i \in 1..Len(h.history) |-> hp[h.history[i]]]

\* --------------------------------------------------------------- Folder
\* A Folder is its phrases: a sequence of (text, frequency) tuples; a dict
\* of folders is a function from folder names.
EmptyDict == [n \in {} |-> <<>>]

\* Mutant: the tuple is appended whether the folder holds it or not.
Folder_add_phrase_always(f, phrase, frequency) ==
    Append(f, <<phrase, frequency>>)

\* Folder.add_phrase
Folder_add_phrase(f, phrase, frequency) ==
    IF <<phrase, frequency>> \in Range(f) THEN f
    ELSE Append(f, <<phrase, frequency>>)

\* Folder.remove_phrase
Folder_remove_phrase(f, phrase) ==
    SelectSeqBy(f, {e \in Range(f) : e[1] = phrase})

\* Folder.clear
Folder_clear(f) == <<>>

RECURSIVE add_phrases_to_folder(_, _)
\* FoldersWidget.add_phrases_to_folder: data is a list of
\* (folder_name, phrase, freq); a name the widget does not hold is skipped.
add_phrases_to_folder(folders, data) ==
    IF data = <<>> THEN folders
    ELSE LET d == Head(data)
             next == IF d[1] \in DOMAIN folders
                     THEN [folders EXCEPT ![d[1]] = Folder_add_phrase(@, d[2], d[3])]
                     ELSE folders
         IN  add_phrases_to_folder(next, Tail(data))

RECURSIVE batch_remove_from_folder(_, _)
\* FoldersWidget.batch_remove_from_folder / remove_from_folder: selected is
\* a list of (folder_name, phrase, freq); every entry with the text goes.
batch_remove_from_folder(folders, selected) ==
    IF selected = <<>> THEN folders
    ELSE LET d == Head(selected)
             next == IF d[1] \in DOMAIN folders
                     THEN [folders EXCEPT ![d[1]] = Folder_remove_phrase(@, d[2])]
                     ELSE folders
         IN  batch_remove_from_folder(next, Tail(selected))

\* FoldersWidget.clear_folder
clear_folder(folders, folder_name) ==
    IF folder_name \in DOMAIN folders
    THEN [folders EXCEPT ![folder_name] = Folder_clear(@)]
    ELSE folders

\* ------------------------------------------------------ PhraseProcessor
\* `stop in phrase`: stop occurs in phrase as a substring
Contains(phrase, stop) ==
    \E i \in 0..(Len(phrase) - Len(stop)) :
        SubSeq(phrase, i + 1, i + Len(stop)) = stop

\* PhraseProcessor.filter_by_stop_words
filter_by_stop_words(phrases, stop_words) ==
    IF stop_words = {} THEN phrases
    ELSE SelectSeqBy(phrases,
            {e \in Range(phrases) :
                \E stop \in stop_words : Contains(lower(e[1]), lower(stop))})

RECURSIVE Run(_)
\* length of the whitespace-free run text starts with
Run(text) ==
    IF text = <<>> \/ Head(text) = " " THEN 0 ELSE 1 + Run(Tail(text))

RECURSIVE split(_)
\* str.split(): the maximal whitespace-free runs, in order
split(text) ==
    IF text = <<>> THEN <<>>
    ELSE IF Head(text) = " " THEN split(Tail(text))
    ELSE <<SubSeq(text, 1, Run(text))>>
             \o split(SubSeq(text, Run(text) + 1, Len(text)))

\* Mutant: the substring test of main_merged_qt5.py.
filter_by_substring(phrases, stop_words) ==
    filter_by_stop_words(phrases, stop_words)

\* PhraseProcessor.filter_by_stop_words of main.py (also main_improved.py,
\* main_merged.py): the words of the lowercased phrase are intersected with
\* the stop words.
main_filter_by_stop_words(phrases, stop_words) ==
    IF stop_words = {} THEN phrases
    ELSE SelectSeqBy(phrases,
            {e \in Range(phrases) :
                Range(split(lower(e[1]))) \cap stop_words # {}})

RECURSIVE LongWords(_)
\* keys of word_freq: the words longer than 3 characters, each once, in the
\* order in which they were inserted
LongWords(words) ==
    IF words = <<>> THEN <<>>
    ELSE LET front == LongWords(SubSeq(words, 1, Len(words) - 1))
             last  == words[Len(words)]
         IN  IF Len(last) > 3 /\ last \notin Range(front)
             THEN Append(front, last) ELSE front

RECURSIVE max_by_len_last(_)
\* Mutant: among the longest keys the last one wins.
max_by_len_last(keys) ==
    IF Len(keys) = 1 THEN keys[1]
    ELSE LET best == max_by_len_last(SubSeq(keys, 1, Len(keys) - 1))
         IN  IF Len(keys[Len(keys)]) >= Len(best) THEN keys[Len(keys)] ELSE best

RECURSIVE max_by_len(_)
\* max(keys, key=len): a later key replaces the best one only when it is
\* strictly longer
max_by_len(keys) ==
    IF Len(keys) = 1 THEN keys[1]
    ELSE LET best == max_by_len(SubSeq(keys, 1, Len(keys) - 1))
         IN  IF Len(keys[Len(keys)]) > Len(best) THEN keys[Len(keys)] ELSE best

\* The key of the bucket for phrases without a long word: in the source
\* a lowercase Russian word of six letters ("other"), one ru_ name per
\* Cyrillic letter here
Other == <<"ru_d", "ru_r", "ru_u", "ru_g", "ru_o", "ru_e">>

\* main_word of group_phrases for one phrase
main_word(phrase) ==
    LET keys == LongWords(split(lower(phrase)))
    IN  IF keys # <<>> THEN max_by_len(keys) ELSE Other

\* Mutant: an entry is put in front of its group.
GroupPrepend(groups, key, e) ==
    IF \E g \in 1..Len(groups) : groups[g][1] = key
    THEN [g \in 1..Len(groups) |->
             IF groups[g][1] = key
             THEN <<key, <<e>> \o groups[g][2]>> ELSE groups[g]]
    ELSE Append(groups, <<key, <<e>>>>)

\* groups[key].append(e) on a defaultdict(list): a dict is the sequence of
\* its <<key, value>> items in insertion order
GroupAppend(groups, key, e) ==
    IF \E g \in 1..Len(groups) : groups[g][1] = key
    THEN [g \in 1..Len(groups) |->
             IF groups[g][1] = key
             THEN <<key, Append(groups[g][2], e)>> ELSE groups[g]]
    ELSE Append(groups, <<key, <<e>>>>)

RECURSIVE group_phrases(_)
\* PhraseProcessor.group_phrases
group_phrases(phrases) ==
    IF phrases = <<>> THEN <<>>
    ELSE LET last == phrases[Len(phrases)]
         IN  GroupAppend(group_phrases(SubSeq(phrases, 1, Len(phrases) - 1)),
                         main_word(last[1]), last)

RECURSIVE remove_duplicates_front(_)
\* Mutant: an entry not seen before is put in front of the result.
remove_duplicates_front(phrases) ==
    IF phrases = <<>> THEN <<>>
    ELSE LET front == remove_duplicates_front(SubSeq(phrases, 1, Len(phrases) - 1))
             last  == phrases[Len(phrases)]
         IN  IF \E i \in 1..(Len(phrases) - 1) :
                    strip(lower(phrases[i][1])) = strip(lower(last[1]))
             THEN front
             ELSE <<<<strip(last[1]), last[2]>>>> \o front

RECURSIVE remove_duplicates_last(_)
\* Mutant: the last entry of equal texts is the one kept.
remove_duplicates_last(phrases) ==
    IF phrases = <<>> THEN <<>>
    ELSE IF \E i \in 2..Len(phrases) :
                strip(lower(phrases[i][1])) = strip(lower(Head(phrases)[1]))
         THEN remove_duplicates_last(Tail(phrases))
         ELSE <<<<strip(Head(phrases)[1]), Head(phrases)[2]>>>>
                  \o remove_duplicates_last(Tail(phrases))

RECURSIVE remove_duplicates(_)
\* PhraseProcessor.remove_duplicates: seen holds phrase.lower().strip() of
\* the entries before; an entry not seen is appended with its text stripped.
remove_duplicates(phrases) ==
    IF phrases = <<>> THEN <<>>
    ELSE LET front == remove_duplicates(SubSeq(phrases, 1, Len(phrases) - 1))
             last  == phrases[Len(phrases)]
         IN  IF \E i \in 1..(Len(phrases) - 1) :
                    strip(lower(phrases[i][1])) = strip(lower(last[1]))
             THEN front
             ELSE Append(front, <<strip(last[1]), last[2]>>)

\* The characters of the texts, in code point order.
Chars ==
    <<" ", "A", "B", "a", "b", "c", "e", "f", "g", "h", "i", "l", "n", "o",
      "p", "r", "s", "t", "u", "w", "y",
      "ru_g", "ru_d", "ru_e", "ru_o", "ru_r", "ru_u">>

\* A text as the sequence of the positions of its characters in Chars
CharCodes(text) == [i \in 1..Len(text) |-> IndexOf(Chars, text[i])]

RECURSIVE SeqLess(_, _)
\* a < b for str (by code points) and, with one element, for int
SeqLess(a, b) ==
    IF b = <<>> THEN FALSE
    ELSE IF a = <<>> THEN TRUE
    ELSE IF Head(a) # Head(b) THEN Head(a) < Head(b)
    ELSE SeqLess(Tail(a), Tail(b))

RECURSIVE sorted(_, _)
\* sorted(iterable, key=..., reverse=...) on items <<key, value>>: stable,
\* items with equal keys keep their order whatever reverse is.
sorted(items, reverse) ==
    IF items = <<>> THEN <<>>
    ELSE LET front == sorted(SubSeq(items, 1, Len(items) - 1), reverse)
             last  == items[Len(items)]
             keep  == Cardinality({i \in 1..Len(front) :
                          ~(IF reverse THEN SeqLess(front[i][1], last[1])
                                       ELSE SeqLess(last[1], front[i][1]))})
         IN  SubSeq(front, 1, keep) \o <<last>> \o SubSeq(front, keep + 1, Len(front))

Values(items) == [i \in 1..Len(items) |-> items[i][2]]

\* Mutant: reverse=True gives the ascending result back to front.
sort_phrases_alphabetically_flip(phrases, reverse) ==
    LET up == Values(sorted([i \in 1..Len(phrases) |->
                  <<CharCodes(lower(phrases[i][1])), phrases[i]>>], FALSE))
    IN  IF reverse THEN [i \in 1..Len(up) |-> up[Len(up) + 1 - i]] ELSE up

\* PhraseProcessor.sort_phrases_alphabetically
sort_phrases_alphabetically(phrases, reverse) ==
    Values(sorted([i \in 1..Len(phrases) |->
               <<CharCodes(lower(phrases[i][1])), phrases[i]>>], reverse))

\* PhraseProcessor.sort_phrases_by_frequency
sort_phrases_by_frequency(phrases, reverse) ==
    Values(sorted([i \in 1..Len(phrases) |-> <<<<phrases[i][2]>>, phrases[i]>>],
                  reverse))

\* Letters: "a", "b" are Latin; "ru_a", "ru_b" stand for the Cyrillic
\* letters U+0430 and U+0431, "ru_yo" for U+0451, which lies outside the
\* range U+0410..U+044F of the class the source searches for.
InRuClass(c) == c \in {"ru_a", "ru_b"}

IsCyrillic(c) == InRuClass(c) \/ c = "ru_yo"

\* re.search of the class U+0430..U+044F, U+0410..U+042F in phrase
search_ru(phrase) == \E i \in 1..Len(phrase) : InRuClass(phrase[i])

\* translit(phrase, 'ru', reversed=True): Cyrillic letters to Latin ones
ToLatin(c) ==
    IF c = "ru_a" THEN "a" ELSE IF c = "ru_b" THEN "b"
    ELSE IF c = "ru_yo" THEN "e" ELSE c

\* translit(phrase, 'ru', reversed=False): Latin letters to Cyrillic ones
ToCyrillic(c) == IF c = "a" THEN "ru_a" ELSE IF c = "b" THEN "ru_b" ELSE c

\* translit; raises holds the texts on which the call raises
translit(phrase, reversed, raises) ==
    IF phrase \in raises THEN [ok |-> FALSE, text |-> phrase]
    ELSE [ok |-> TRUE,
          text |-> [i \in 1..Len(phrase) |->
                       IF reversed THEN ToLatin(phrase[i]) ELSE ToCyrillic(phrase[i])]]

\* The body of the loop of transliterate_phrases, main.py: the entry that
\* is appended to result.
main_transliterate_entry(e, reverse, raises) ==
    LET t == translit(e[1], ~reverse, raises)
        guarded == IF reverse THEN ~search_ru(e[1]) ELSE search_ru(e[1])
    IN  IF guarded /\ t.ok THEN <<t.text, e[2]>> ELSE e

\* PhraseProcessor.transliterate_phrases, main.py
main_transliterate_phrases(phrases, reverse, raises) ==
    [i \in 1..Len(phrases) |-> main_transliterate_entry(phrases[i], reverse, raises)]

\* ------------------------------------------------------------ FileLoader
\* A file is [suffix, readable, columns, rows]; a row is <<text, cell>> with
\* the text of column 0 (of the line up to the first tab) and the cell of
\* column 1 (the field after the tab): [k |-> "int", v |-> n] a number,
\* "nan" an empty cell, "none" no field, "str" a text that is no number,
\* "sup" a text of digit characters that int() does not take (as "\u00b2").
Cell(k, v) == [k |-> k, v |-> v]

\* int(row.iloc[1]) if pd.notna(row.iloc[1]) else 0; ok is FALSE where
\* int() raises.
ExcelFreq(cell) ==
    IF cell.k \in {"nan", "none"} THEN [ok |-> TRUE, v |-> 0]
    ELSE IF cell.k = "int" THEN [ok |-> TRUE, v |-> cell.v]
    ELSE [ok |-> FALSE, v |-> 0]

\* int(parts[1]) if len(parts) > 1 and parts[1].isdigit() else 0: a sign is
\* no digit, so "-1" gives 0; ok is FALSE where isdigit() holds and int()
\* raises.
TxtFreq(cell) ==
    IF cell.k = "int" /\ cell.v >= 0 THEN [ok |-> TRUE, v |-> cell.v]
    ELSE IF cell.k = "sup" THEN [ok |-> FALSE, v |-> 0]
    ELSE [ok |-> TRUE, v |-> 0]

\* str(row.iloc[0]).strip(), and parts[0] of line.strip().split('\t'): the
\* blanks before the tab stay when a field follows.
RowPhrase(suffix, row) ==
    IF suffix = "txt" /\ row[2].k # "none" THEN lstrip(row[1]) ELSE strip(row[1])

RECURSIVE ReadRows(_, _, _)
\* The row loops of FileLoader.run: each row is appended to all_phrases as
\* it is read; the loop ends where a row raises.
ReadRows(all_phrases, suffix, rows) ==
    IF rows = <<>> THEN [all_phrases |-> all_phrases, ok |-> TRUE]
    ELSE LET freq == IF suffix = "txt" THEN TxtFreq(Head(rows)[2])
                     ELSE ExcelFreq(Head(rows)[2])
         IN  IF ~freq.ok THEN [all_phrases |-> all_phrases, ok |-> FALSE]
             ELSE ReadRows(Append(all_phrases, <<RowPhrase(suffix, Head(rows)), freq.v>>),
                           suffix, Tail(rows))

\* The body of the try block of FileLoader.run for one file.
ReadFile(all_phrases, file) ==
    IF file.suffix \notin {"xlsx", "txt"} THEN [all_phrases |-> all_phrases, ok |-> TRUE]
    ELSE IF ~file.readable THEN [all_phrases |-> all_phrases, ok |-> FALSE]
    ELSE IF file.suffix = "xlsx" /\ file.columns < 2
    THEN [all_phrases |-> all_phrases \o
                          [i \in 1..Len(file.rows) |-> <<strip(file.rows[i][1]), 0>>],
          ok |-> TRUE]
    ELSE ReadRows(all_phrases, file.suffix, file.rows)

\* One pass of the loop of FileLoader.run: st is [all_phrases, errors], the
\* list built so far and the error signals emitted so far (file numbers).
LoaderStep(st, files, i) ==
    LET r == ReadFile(st.all_phrases, files[i])
    IN  [all_phrases |-> r.all_phrases,
         errors |-> IF r.ok THEN st.errors ELSE Append(st.errors, i)]

RECURSIVE LoaderLoop(_, _, _)
LoaderLoop(st, files, i) ==
    IF i > Len(files) THEN st ELSE LoaderLoop(LoaderStep(st, files, i), files, i + 1)

\* FileLoader.run: what finished.emit carries and the errors emitted.
FileLoader_run(files) == LoaderLoop([all_phrases |-> <<>>, errors |-> <<>>], files, 1)

\* ------------------------------------------------------------- MainWindow
\* The handlers work on the window's state as one record w:
\*   lists, tabs, cur, prev, sww, gsw, fw, gfw, gstop, gfold, heap, hists,
\*   crashed, and exc (an exception is propagating out of the current call).
\* PhraseList(name): each field gets a new object.
NewPhraseList(w, name) ==
    LET a == Alloc(w.heap, <<>>)
        h == NewRef(w.hists)
    IN  [w EXCEPT !.heap = a.heap,
                  !.hists = @ @@ (h :> NewHistory),
                  !.lists = Append(@, [name |-> name, phrases |-> a.ref,
                                       stop_words |-> {}, folders |-> EmptyDict,
                                       history |-> h])]

\* PhraseTab() with MainPhraseTable.__init__, named `name`.
NewPhraseTab(w, name) ==
    LET a == Alloc(w.heap, <<>>)
        h == NewRef(w.hists)
    IN  [w   |-> [w EXCEPT !.heap = a.heap, !.hists = @ @@ (h :> NewHistory)],
         tab |-> [name |-> name, history |-> h, current_data |-> a.ref,
                  stop_words |-> {}, folders |-> EmptyDict,
                  global_folders |-> EmptyDict,
                  search_text |-> <<>>, search_only_matches |-> FALSE,
                  exact_search |-> FALSE, current_search_index |-> 0,
                  rows |-> <<>>]]

\* self.phrase_tabs.widget(i): position of tab i in tabs, 0 for None
widget(w, i) == IF 0 <= i /\ i < Len(w.tabs) THEN i + 1 ELSE 0

\* `name in self.phrase_lists`
HasList(w, name) == \E k \in 1..Len(w.lists) : w.lists[k].name = name

\* position of self.phrase_lists[name]
ListAt(w, name) == CHOOSE k \in 1..Len(w.lists) : w.lists[k].name = name

\* \b of the regular expression: between position i and i + 1 of text one
\* side is a word character and the other is not (or is the end of the text)
WordAt(text, i) == i \in 1..Len(text) /\ text[i] # " "

Boundary(text, i) == WordAt(text, i) # WordAt(text, i + 1)

\* MainPhraseTable.is_match with the table's search settings
is_match(tab, phrase) ==
    IF tab.exact_search
    THEN LET text == lower(phrase)
             term == lower(tab.search_text)
         IN  \E i \in 0..(Len(text) - Len(term)) :
                 /\ SubSeq(text, i + 1, i + Len(term)) = term
                 /\ Boundary(text, i)
                 /\ Boundary(text, i + Len(term))
    ELSE Contains(lower(phrase), lower(tab.search_text))

RECURSIVE OnlyMatches(_, _)
\* [(phrase, freq) for phrase, freq in filtered_data if self.is_match(phrase)]
OnlyMatches(tab, data) ==
    IF data = <<>> THEN <<>>
    ELSE IF is_match(tab, Head(data)[1])
         THEN <<Head(data)>> \o OnlyMatches(tab, Tail(data))
         ELSE OnlyMatches(tab, Tail(data))

\* Mutant: the search stage does not look at the only-matches mode.
display_data_always(tab, data) ==
    LET filtered_data == IF tab.stop_words # {}
                         THEN filter_by_stop_words(data, tab.stop_words)
                         ELSE data
    IN  IF tab.search_text # <<>>
        THEN OnlyMatches(tab, filtered_data)
        ELSE filtered_data

\* display_data of MainPhraseTable.update_table: the two filter stages
display_data(tab, data) ==
    LET filtered_data == IF tab.stop_words # {}
                         THEN filter_by_stop_words(data, tab.stop_words)
                         ELSE data
    IN  IF tab.search_text # <<>> /\ tab.search_only_matches
        THEN OnlyMatches(tab, filtered_data)
        ELSE filtered_data

\* The check state of the box update_table puts in front of a row
Unchecked == 0

RECURSIVE sort_rows(_)
\* setSortingEnabled(True) at the end of update_table sorts the rows by the
\* header's sort column, which is the check box column, in descending
\* order; the sort is stable. A row is <<check state, entry>>.
sort_rows(rows) ==
    IF rows = <<>> THEN <<>>
    ELSE LET front == sort_rows(SubSeq(rows, 1, Len(rows) - 1))
             last  == rows[Len(rows)]
             keep  == Cardinality({i \in 1..Len(front) : ~(front[i][1] < last[1])})
         IN  SubSeq(front, 1, keep) \o <<last>> \o SubSeq(front, keep + 1, Len(front))

\* The rest of MainPhraseTable.update_table(self.current_data,
\* save_history=False) on tab t: the rows of the table are built again.
update_table(w, t) ==
    LET shown == display_data(w.tabs[t], w.heap[w.tabs[t].current_data])
        rows  == sort_rows([i \in 1..Len(shown) |-> <<Unchecked, shown[i]>>])
    IN  [w EXCEPT !.tabs[t].rows = [i \in 1..Len(rows) |-> rows[i][2]]]

\* MainPhraseTable.load_data on tab t: original_data = data, current_data =
\* a copy, and the table's history is reset to it.
load_data(w, t, data) ==
    LET c == deepcopy(w.heap, data)
        r == set_initial_state(c.heap, w.hists[w.tabs[t].history], c.ref)
    IN  update_table([w EXCEPT !.heap = r.heap,
                               !.hists[w.tabs[t].history] = r.h,
                               !.tabs[t].current_data = c.ref], t)

\* MainPhraseTable.save_state
save_state(w, t) ==
    LET r == add_state(w.heap, w.hists[w.tabs[t].history], w.tabs[t].current_data)
    IN  [w EXCEPT !.heap = r.heap, !.hists[w.tabs[t].history] = r.h]

\* Mutant: the change of the stop words is recorded as an undo step.
set_stop_words_saving(w, t, stop_words) ==
    update_table(save_state([w EXCEPT !.tabs[t].stop_words = stop_words], t), t)

\* MainPhraseTable.set_stop_words
set_stop_words(w, t, stop_words) ==
    update_table([w EXCEPT !.tabs[t].stop_words = stop_words], t)

\* MainPhraseTable.set_search; the first match is selected when the rows
\* are not reduced to the matches.
set_search(w, t, text, only_matches, exact) ==
    update_table([w EXCEPT !.tabs[t].search_text = text,
                           !.tabs[t].search_only_matches = only_matches,
                           !.tabs[t].exact_search = exact,
                           !.tabs[t].current_search_index = 0], t)

\* MainPhraseTable.get_matching_rows: the row numbers, from 0
get_matching_rows(tab) ==
    SelectSeqBy([i \in 1..Len(tab.rows) |-> i - 1],
                {r \in 0..(Len(tab.rows) - 1) : ~is_match(tab, tab.rows[r + 1][1])})

\* Mutant: the index stops at the last match.
search_step_clamped(w, t, step) ==
    LET rows == get_matching_rows(w.tabs[t])
        i    == w.tabs[t].current_search_index + step
        next == IF i < 0 THEN 0 ELSE IF i >= Len(rows) THEN Len(rows) - 1 ELSE i
    IN  IF rows # <<>>
        THEN [w |-> [w EXCEPT !.tabs[t].current_search_index = next],
              ret |-> <<next + 1, Len(rows)>>, row |-> {rows[next + 1]}]
        ELSE [w |-> w, ret |-> <<0, 0>>, row |-> {}]

\* MainPhraseTable.next_search_result (step 1) / prev_search_result
\* (step -1): the new state, what is returned, and the rows selectRow is
\* called with.
search_step(w, t, step) ==
    LET rows == get_matching_rows(w.tabs[t])
        next == (w.tabs[t].current_search_index + step) % Len(rows)
    IN  IF rows # <<>>
        THEN [w |-> [w EXCEPT !.tabs[t].current_search_index = next],
              ret |-> <<next + 1, Len(rows)>>, row |-> {rows[next + 1]}]
        ELSE [w |-> w, ret |-> <<0, 0>>, row |-> {}]

\* MainPhraseTable.get_current_data: self.current_data.copy()
get_current_data(w, t) == deepcopy(w.heap, w.tabs[t].current_data)

\* First half of on_phrase_tab_changed: the list of the tab at the
\* remembered index takes over what the widgets and that tab's table hold.
SyncPrev(w) ==
    LET p == widget(w, w.prev) IN
    IF w.prev < 0 \/ p = 0 THEN w
    ELSE IF ~HasList(w, w.tabs[p].name) THEN [w EXCEPT !.exc = TRUE]
    ELSE LET k == ListAt(w, w.tabs[p].name)
             c == get_current_data(w, p)
         IN  [w EXCEPT !.heap = c.heap,
                       !.lists[k].stop_words = w.sww,
                       !.lists[k].folders = w.fw,
                       !.lists[k].phrases = c.ref,
                       !.lists[k].history = w.tabs[p].history]

\* Second half: the widgets and the table of the tab now current are loaded
\* from its list.
ShowCurrent(w, index) ==
    LET t == widget(w, index) IN
    IF t = 0 THEN w
    ELSE IF ~HasList(w, w.tabs[t].name) THEN [w EXCEPT !.exc = TRUE]
    ELSE LET k  == ListAt(w, w.tabs[t].name)
             pl == w.lists[k]
             w1 == [w EXCEPT !.sww = pl.stop_words, !.fw = pl.folders]
             w2 == load_data(w1, t, pl.phrases)
         IN  set_stop_words([w2 EXCEPT !.tabs[t].history = pl.history,
                                       !.tabs[t].folders = pl.folders,
                                       !.tabs[t].global_folders = w.gfold],
                            t, pl.stop_words \cup w.gstop)

\* MainWindow.on_phrase_tab_changed(index)
on_phrase_tab_changed(w, index) ==
    LET w1 == SyncPrev(w) IN
    IF w1.exc THEN w1
    ELSE ShowCurrent([w1 EXCEPT !.prev = index], index)

\* Qt delivers currentChanged to on_phrase_tab_changed; an exception that
\* leaves a slot aborts the process (PyQt5 calls qFatal).
currentChanged(w, index) ==
    LET r == on_phrase_tab_changed(w, index) IN
    IF r.exc THEN [r EXCEPT !.exc = FALSE, !.crashed = TRUE] ELSE r

\* QTabWidget.setCurrentIndex / setCurrentWidget
setCurrentIndex(w, i) ==
    IF 0 <= i /\ i < Len(w.tabs) /\ i # w.cur
    THEN currentChanged([w EXCEPT !.cur = i], i)
    ELSE w

\* QTabWidget.addTab: the first tab becomes the current one.
addTab(w, tab) ==
    LET w1 == [w EXCEPT !.tabs = Append(@, tab)] IN
    IF Len(w1.tabs) = 1 THEN currentChanged([w1 EXCEPT !.cur = 0], 0) ELSE w1

\* QTabWidget.removeTab(i): the page is taken out first; if it was the
\* current one the tab to its right (else the last one) becomes current, a
\* tab before the current one shifts the current index down; both emit
\* currentChanged, as does removing the only tab (with -1).
removeTab(w, i) ==
    IF ~(0 <= i /\ i < Len(w.tabs)) THEN w
    ELSE LET rest == SubSeq(w.tabs, 1, i) \o SubSeq(w.tabs, i + 2, Len(w.tabs))
             w1 == [w EXCEPT !.tabs = rest]
         IN  IF i = w.cur
             THEN IF rest = <<>> THEN currentChanged([w1 EXCEPT !.cur = -1], -1)
                  ELSE LET n == IF i >= Len(rest) THEN Len(rest) - 1 ELSE i
                       IN  currentChanged([w1 EXCEPT !.cur = n], n)
             ELSE IF i < w.cur
                  THEN currentChanged([w1 EXCEPT !.cur = w.cur - 1], w.cur - 1)
                  ELSE w1

\* tab = PhraseTab(); self.phrase_tabs.addTab(tab, name)
AddNewTab(nt) == addTab(nt.w, nt.tab)

\* MainWindow.create_new_tab
create_new_tab(w, name) ==
    IF HasList(w, name) THEN w
    ELSE AddNewTab(NewPhraseTab(NewPhraseList(w, name), name))

\* MainWindow.sync_current_tab
sync_current_tab(w) ==
    LET t == widget(w, w.cur) IN
    IF t = 0 \/ ~HasList(w, w.tabs[t].name) THEN w
    ELSE LET k == ListAt(w, w.tabs[t].name)
             c == get_current_data(w, t)
         IN  [w EXCEPT !.heap = c.heap,
                       !.lists[k].stop_words = w.sww,
                       !.lists[k].folders = w.fw,
                       !.lists[k].phrases = c.ref,
                       !.lists[k].history = w.tabs[t].history]

\* MainPhraseTable.undo on tab t: `if state:` leaves the data as it is when
\* nothing, or an empty list, comes back.
table_undo(w, t) ==
    LET r == undo(w.heap, w.hists[w.tabs[t].history])
        w1 == [w EXCEPT !.heap = r.heap, !.hists[w.tabs[t].history] = r.h]
    IN  IF r.ret # None /\ r.heap[r.ret] # <<>>
        THEN update_table([w1 EXCEPT !.tabs[t].current_data = r.ret], t)
        ELSE w1

\* MainPhraseTable.redo on tab t
table_redo(w, t) ==
    LET r == redo(w.heap, w.hists[w.tabs[t].history])
        w1 == [w EXCEPT !.heap = r.heap, !.hists[w.tabs[t].history] = r.h]
    IN  IF r.ret # None /\ r.heap[r.ret] # <<>>
        THEN update_table([w1 EXCEPT !.tabs[t].current_data = r.ret], t)
        ELSE w1

\* MainWindow.add_phrase with the text the dialog returned (not empty)
add_phrase(w, phrase) ==
    LET t == widget(w, w.cur) IN
    IF t = 0 THEN w
    ELSE LET w1 == save_state(w, t)
         IN  update_table([w1 EXCEPT !.heap = ListAppend(@, w.tabs[t].current_data,
                                                         <<strip(phrase), 0>>)], t)

\* StopWordsWidget.add_stop_word: the word typed, trimmed and lowercased;
\* TRUE when the set changed and stop_words_changed is emitted.
add_stop_word_emits(stop_words, text) ==
    LET word == lower(strip(text)) IN word # <<>> /\ word \notin stop_words

add_stop_word(stop_words, text) ==
    IF add_stop_word_emits(stop_words, text)
    THEN stop_words \cup {lower(strip(text))}
    ELSE stop_words

\* MainWindow.on_stop_words_changed (slot of the local widget)
on_stop_words_changed(w, stop_words) ==
    LET t == widget(w, w.cur) IN
    IF t = 0 THEN w
    ELSE IF ~HasList(w, w.tabs[t].name) THEN [w EXCEPT !.crashed = TRUE]
    ELSE LET k == ListAt(w, w.tabs[t].name)
         IN  set_stop_words([w EXCEPT !.lists[k].stop_words = stop_words],
                            t, stop_words \cup w.gstop)

RECURSIVE SetAllStopWords(_, _)
\* The loop of on_global_stop_changed over the first n tabs
SetAllStopWords(w, n) ==
    IF n = 0 THEN w
    ELSE set_stop_words(SetAllStopWords(w, n - 1), n,
                        w.lists[ListAt(w, w.tabs[n].name)].stop_words \cup w.gstop)

\* MainWindow.on_global_stop_changed (slot of the global widget)
on_global_stop_changed(w, stop_words) ==
    IF \E t \in 1..Len(w.tabs) : ~HasList(w, w.tabs[t].name)
    THEN [w EXCEPT !.gstop = stop_words, !.crashed = TRUE]
    ELSE SetAllStopWords([w EXCEPT !.gstop = stop_words], Len(w.tabs))

\* MainWindow.update_current_table_folders (slot of folders_changed, local)
update_current_table_folders(w) ==
    LET t == widget(w, w.cur) IN
    IF t = 0 THEN w ELSE [w EXCEPT !.tabs[t].folders = w.fw]

\* MainWindow.update_all_tables_global_folders (slot of folders_changed,
\* global)
update_all_tables_global_folders(w) ==
    [w EXCEPT !.gfold = w.gfw,
              !.tabs = [t \in 1..Len(w.tabs) |->
                           [w.tabs[t] EXCEPT !.global_folders = w.gfw]]]

\* Mutant: a folder of the name is made anew.
create_folder_replace(folders, name) ==
    [n \in DOMAIN folders \cup {name} |-> IF n = name THEN <<>> ELSE folders[n]]

\* FoldersWidget.create_folder shows the warning that the folder exists.
create_folder_warns(folders, name) == name \in DOMAIN folders

\* FoldersWidget.create_folder with the name the dialog returned: a name
\* the widget holds already is refused (a warning is shown).
create_folder(folders, name) ==
    IF name \notin DOMAIN folders THEN folders @@ (name :> <<>>) ELSE folders

\* Mutant: the texts are compared as they are.
RECURSIVE RemoveKeys_exact(_, _)
RemoveKeys_exact(data, keys) ==
    IF data = <<>> THEN <<>>
    ELSE IF Head(data)[1] \in keys THEN RemoveKeys_exact(Tail(data), keys)
         ELSE <<Head(data)>> \o RemoveKeys_exact(Tail(data), keys)

\* [x for x in s if f(x) not in keys], with f = lower().strip() of the text
RECURSIVE RemoveKeys(_, _)
RemoveKeys(data, keys) ==
    IF data = <<>> THEN <<>>
    ELSE IF strip(lower(Head(data)[1])) \in keys THEN RemoveKeys(Tail(data), keys)
         ELSE <<Head(data)>> \o RemoveKeys(Tail(data), keys)

\* The removal step of a move: current_data becomes a new list without the
\* entries whose text matches a selected one; the list takes that object.
RemoveFromList(w, t, phrases) ==
    LET w1 == save_state(w, t)
        phrases_set == {strip(lower(e[1])) : e \in Range(phrases)}
        a == Alloc(w1.heap, RemoveKeys(w1.heap[w1.tabs[t].current_data], phrases_set))
        w2 == update_table([w1 EXCEPT !.heap = a.heap,
                                      !.tabs[t].current_data = a.ref], t)
    IN  IF ~HasList(w2, w2.tabs[t].name) THEN [w2 EXCEPT !.crashed = TRUE]
        ELSE [w2 EXCEPT !.lists[ListAt(w2, w2.tabs[t].name)].phrases = a.ref]

\* Mutant: a copy removes the entries as a move does.
on_phrases_to_folder_moving(w, folder_name, phrases, is_global, is_move) ==
    LET t == widget(w, w.cur) IN
    IF t = 0 THEN w ELSE RemoveFromList(w, t, phrases)

\* self.current_data = data; self.update_table(data, save_history=False)
\* with a list the table action has built
SetData(w, t, data) ==
    LET a == Alloc(w.heap, data)
    IN  update_table([w EXCEPT !.heap = a.heap, !.tabs[t].current_data = a.ref], t)

\* MainPhraseTable.remove_duplicates
table_remove_duplicates(w, t) ==
    LET data == remove_duplicates(w.heap[w.tabs[t].current_data])
    IN  SetData(save_state(w, t), t, data)

\* MainPhraseTable.sort_by_frequency
table_sort_by_frequency(w, t, reverse) ==
    LET data == sort_phrases_by_frequency(w.heap[w.tabs[t].current_data], reverse)
    IN  SetData(save_state(w, t), t, data)

RECURSIVE WithoutTexts(_, _)
\* [(p, f) for p, f in self.current_data if p not in phrases_to_delete]
WithoutTexts(data, phrases_to_delete) ==
    IF data = <<>> THEN <<>>
    ELSE IF Head(data)[1] \in phrases_to_delete
         THEN WithoutTexts(Tail(data), phrases_to_delete)
         ELSE <<Head(data)>> \o WithoutTexts(Tail(data), phrases_to_delete)

\* MainPhraseTable.delete_selected; checked holds the numbers of the rows
\* whose box is checked (row 1 is the first row shown).
table_delete_selected(w, t, checked) ==
    LET phrases_to_delete == {w.tabs[t].rows[r][1] : r \in checked}
        data == WithoutTexts(w.heap[w.tabs[t].current_data], phrases_to_delete)
    IN  SetData(save_state(w, t), t, data)

RECURSIVE NotExisting(_, _)
\* The (phrase, freq) of the selected entries whose text is not in existing
NotExisting(selected, existing) ==
    IF selected = <<>> THEN <<>>
    ELSE IF strip(lower(Head(selected)[2])) \in existing
         THEN NotExisting(Tail(selected), existing)
         ELSE <<<<Head(selected)[2], Head(selected)[3]>>>>
                  \o NotExisting(Tail(selected), existing)

\* The part of on_phrases_back that works on the table of tab t: a state
\* is saved, the entries not in the table yet are appended in place.
AppendBack(w, t, selected) ==
    LET w1 == save_state(w, t)
        existing == {strip(lower(e[1])) : e \in Range(w1.heap[w1.tabs[t].current_data])}
    IN  update_table([w1 EXCEPT !.heap[w1.tabs[t].current_data] =
                                    @ \o NotExisting(selected, existing)], t)

\* The part of on_phrases_back that takes moved entries out of the folders.
RemoveBack(w, selected, is_move, is_global) ==
    IF ~is_move THEN w
    ELSE IF is_global
    THEN update_all_tables_global_folders(
             [w EXCEPT !.gfw = batch_remove_from_folder(@, selected)])
    ELSE update_current_table_folders(
             [w EXCEPT !.fw = batch_remove_from_folder(@, selected)])

\* current_list.phrases = current_table.current_data
TakeTable(w, t) ==
    IF ~HasList(w, w.tabs[t].name) THEN [w EXCEPT !.crashed = TRUE]
    ELSE [w EXCEPT !.lists[ListAt(w, w.tabs[t].name)].phrases = w.tabs[t].current_data]

\* MainWindow.on_phrases_back (slot of FoldersWidget.phrases_back);
\* selected is a list of (folder_name, phrase, freq)
on_phrases_back(w, selected, is_move, is_global) ==
    LET t == widget(w, w.cur) IN
    IF t = 0 THEN w
    ELSE TakeTable(RemoveBack(AppendBack(w, t, selected), selected, is_move, is_global), t)

\* MainWindow.on_phrases_to_folder (slot of MainPhraseTable.phrases_to_folder)
on_phrases_to_folder(w, folder_name, phrases, is_global, is_move) ==
    LET data == [i \in 1..Len(phrases) |-> <<folder_name, phrases[i][1], phrases[i][2]>>]
        t == widget(w, w.cur)
        w1 == IF is_global
              THEN update_all_tables_global_folders(
                       [w EXCEPT !.gfw = add_phrases_to_folder(@, data)])
              ELSE LET wl == update_current_table_folders(
                                 [w EXCEPT !.fw = add_phrases_to_folder(@, data)])
                   IN  IF t = 0 THEN wl
                       ELSE IF ~HasList(wl, wl.tabs[t].name)
                            THEN [wl EXCEPT !.crashed = TRUE]
                            ELSE [wl EXCEPT
                                    !.lists[ListAt(wl, wl.tabs[t].name)].folders = wl.fw]
    IN  IF w1.crashed \/ ~is_move \/ t = 0 THEN w1
        ELSE RemoveFromList(w1, t, phrases)

\* A list name is <<stem, i>>: the stem alone for i = 0, "stem (i)" else.
\* MainWindow.load_files: the name the new list gets.
RECURSIVE FreeName(_, _, _)
FreeName(w, stem, i) ==
    IF HasList(w, <<stem, i>>) THEN FreeName(w, stem, i + 1) ELSE <<stem, i>>

\* MainWindow.load_files up to loader.start(): the tab is created at once,
\* the phrases arrive later.
load_files(w, stem) == create_new_tab(w, FreeName(w, stem, 0))

\* list.extend(data), in place
ListExtend(hp, ref, data) == [hp EXCEPT ![ref] = @ \o data]

\* MainWindow.on_files_loaded (slot of FileLoader.finished)
on_files_loaded(w, data, name) ==
    IF \A t \in 1..Len(w.tabs) : w.tabs[t].name # name
    THEN [w EXCEPT !.crashed = TRUE]
    ELSE LET t == CHOOSE i \in 1..Len(w.tabs) :
                     /\ w.tabs[i].name = name
                     /\ \A j \in 1..(i - 1) : w.tabs[j].name # name
         IN  IF ~HasList(w, name) THEN [w EXCEPT !.crashed = TRUE]
             ELSE LET k == ListAt(w, name)
                      w1 == [w EXCEPT !.heap = ListExtend(@, w.lists[k].phrases, data)]
                      w2 == load_data(w1, t, w1.lists[k].phrases)
                      w3 == set_stop_words(w2, t, w2.lists[k].stop_words \cup w2.gstop)
                  IN  setCurrentIndex(w3, t - 1)

\* ---------------------------------------------------------- SessionStore
NoFile == [exists |-> FALSE]

\* What pickle writes for one HistoryManager / one PhraseList: the values.
PickleHistory(w, h) ==
    [history |-> SnapVals(w.heap, w.hists[h]),
     current_index |-> w.hists[h].current_index]

PickleList(w, pl) ==
    [name |-> pl.name, phrases |-> w.heap[pl.phrases],
     stop_words |-> pl.stop_words, folders |-> pl.folders,
     history |-> PickleHistory(w, pl.history)]

\* MainWindow._save_session_to_file: the current tab is synchronised, then
\* (phrase_lists, global_stop_words, global_folders, currentIndex) is dumped.
save_session_file(w) ==
    [exists |-> TRUE,
     lists |-> [k \in 1..Len(w.lists) |-> PickleList(w, w.lists[k])],
     gstop |-> w.gstop, gfold |-> w.gfold, index |-> w.cur]

RECURSIVE UnpickleSnapshots(_, _)
\* new list objects for the snapshots of a loaded history
UnpickleSnapshots(hp, vals) ==
    IF vals = <<>> THEN [heap |-> hp, refs |-> <<>>]
    ELSE LET a == Alloc(hp, Head(vals))
             r == UnpickleSnapshots(a.heap, Tail(vals))
         IN  [heap |-> r.heap, refs |-> <<a.ref>> \o r.refs]

RECURSIVE UnpickleLists(_, _)
\* pickle.load: every PhraseList of the file as new objects
UnpickleLists(w, plists) ==
    IF plists = <<>> THEN w
    ELSE LET p == Head(plists)
             a == Alloc(w.heap, p.phrases)
             u == UnpickleSnapshots(a.heap, p.history.history)
             h == NewRef(w.hists)
             w1 == [w EXCEPT
                     !.heap = u.heap,
                     !.hists = @ @@ (h :> [history |-> u.refs,
                                           current_index |-> p.history.current_index]),
                     !.lists = Append(@, [name |-> p.name, phrases |-> a.ref,
                                          stop_words |-> p.stop_words,
                                          folders |-> p.folders, history |-> h])]
         IN  UnpickleLists(w1, Tail(plists))

RECURSIVE RemoveAllTabs(_)
\* while self.phrase_tabs.count() > 0: self.phrase_tabs.removeTab(0)
RemoveAllTabs(w) ==
    IF w.crashed \/ w.tabs = <<>> THEN w ELSE RemoveAllTabs(removeTab(w, 0))

\* tab.table.load_data(pl.phrases) ... set_global_folders for the tab just
\* added for list k
SetUpLoadedTab(w, k) ==
    LET t == Len(w.tabs) IN
    set_stop_words([w EXCEPT !.tabs[t].history = w.lists[k].history,
                             !.tabs[t].folders = w.lists[k].folders,
                             !.tabs[t].global_folders = w.gfold],
                   t, w.lists[k].stop_words \cup w.gstop)

LoadIntoNewTab(w, k) ==
    IF w.crashed THEN w
    ELSE SetUpLoadedTab(load_data(w, Len(w.tabs), w.lists[k].phrases), k)

RECURSIVE RecreateTabs(_, _)
\* for name, pl in self.phrase_lists.items(): a new tab for list k, k + 1, ...
RecreateTabs(w, k) ==
    IF w.crashed \/ k > Len(w.lists) THEN w
    ELSE RecreateTabs(
             LoadIntoNewTab(AddNewTab(NewPhraseTab(w, w.lists[k].name)), k),
             k + 1)

Min(a, b) == IF a < b THEN a ELSE b

\* self.on_phrase_tab_changed(self.phrase_tabs.currentIndex()), called
\* directly: an exception ends in load_session's except branch.
ShowLoaded(w) ==
    IF w.crashed THEN w ELSE on_phrase_tab_changed(w, w.cur)

\* if self.phrase_tabs.count() > 0: setCurrentIndex(min(current_index, ...))
SelectLoaded(w, file, kind) ==
    IF w.crashed \/ w.tabs = <<>> THEN w
    ELSE IF kind = "bad_index" THEN [w EXCEPT !.exc = TRUE]
    ELSE ShowLoaded(setCurrentIndex(w, Min(file.index, Len(w.tabs) - 1)))

\* self.general_stop.load_stop_words, self.general_folders.load_folders
LoadGlobals(w) ==
    IF w.crashed THEN w ELSE [w EXCEPT !.gsw = w.gstop, !.gfw = w.gfold]

\* self.phrase_lists, self.global_stop_words, self.global_folders,
\* current_index = pickle.load(f)
AssignLoaded(w, file) ==
    UnpickleLists([w EXCEPT !.lists = <<>>, !.gstop = file.gstop,
                            !.gfold = file.gfold], file.lists)

\* The window a call leaves and whether it came back without an exception.
Outcome(w) == [w |-> [w EXCEPT !.exc = FALSE], ok |-> ~w.exc /\ ~w.crashed]

\* MainWindow.load_session reading `file`. kind: "unreadable" (pickle.load
\* raises), "bad_index" (the fourth element of the tuple is no number, so
\* min(current_index, ...) raises), "ok". Returns the window and whether the
\* load went through (ok) or ended in the except branch or in an abort.
load_session(w, file, kind) ==
    IF kind = "unreadable" THEN [w |-> w, ok |-> FALSE]
    ELSE Outcome(SelectLoaded(
             LoadGlobals(RecreateTabs(RemoveAllTabs(AssignLoaded(w, file)), 1)),
             file, kind))

\* ------------------------------------------------------- window, driven
RECURSIVE Flatten(_)
Flatten(ss) == IF ss = <<>> THEN <<>> ELSE Head(ss) \o Flatten(Tail(ss))

\* Addresses are renamed to the order in which tabs and lists reach them;
\* objects nothing refers to any more are dropped.
HistRoots(w) ==
    Dedup([t \in 1..Len(w.tabs) |-> w.tabs[t].history]
          \o [k \in 1..Len(w.lists) |-> w.lists[k].history])

ListRoots(w) ==
    LET hr == HistRoots(w) IN
    Dedup([t \in 1..Len(w.tabs) |-> w.tabs[t].current_data]
          \o [k \in 1..Len(w.lists) |-> w.lists[k].phrases]
          \o Flatten([i \in 1..Len(hr) |-> w.hists[hr[i]].history]))

Canonical(w) ==
    LET hr == HistRoots(w)
        lr == ListRoots(w)
    IN  [w EXCEPT
          !.heap = [i \in 1..Len(lr) |-> w.heap[lr[i]]],
          !.hists = [i \in 1..Len(hr) |->
                        [history |-> [j \in 1..Len(w.hists[hr[i]].history) |->
                                         IndexOf(lr, w.hists[hr[i]].history[j])],
                         current_index |-> w.hists[hr[i]].current_index]],
          !.tabs = [t \in 1..Len(w.tabs) |->
                       [w.tabs[t] EXCEPT !.history = IndexOf(hr, @),
                                         !.current_data = IndexOf(lr, @)]],
          !.lists = [k \in 1..Len(w.lists) |->
                        [w.lists[k] EXCEPT !.history = IndexOf(hr, @),
                                           !.phrases = IndexOf(lr, @)]]]

\* The window's state as the record the handlers work on.
W ==
    [lists |-> phrase_lists, tabs |-> phrase_tabs, cur |-> tab_index,
     prev |-> prev_phrase_tab_index, sww |-> stop_words_widget,
     gsw |-> general_stop, fw |-> folders_widget, gfw |-> general_folders,
     gstop |-> global_stop_words, gfold |-> global_folders,
     heap |-> heap, hists |-> hists, crashed |-> crashed, exc |-> FALSE]

\* The state a handler leaves.
Commit(w0) ==
    LET w == Canonical(w0) IN
    /\ phrase_lists' = w.lists
    /\ phrase_tabs' = w.tabs
    /\ tab_index' = w.cur
    /\ prev_phrase_tab_index' = w.prev
    /\ stop_words_widget' = w.sww
    /\ general_stop' = w.gsw
    /\ folders_widget' = w.fw
    /\ general_folders' = w.gfw
    /\ global_stop_words' = w.gstop
    /\ global_folders' = w.gfold
    /\ heap' = w.heap
    /\ hists' = w.hists
    /\ crashed' = w.crashed
    /\ UNCHANGED <<hm, live, ret, op, before, given>>

\* MainWindow.__init__
WInit ==
    /\ heap = <<>>
    /\ hm = NewHistory
    /\ live = None
    /\ ret = None
    /\ op = "init"
    /\ before = [len |-> 0, idx |-> -1]
    /\ given = [populated |-> FALSE, ok |-> FALSE, vals |-> <<>>]
    /\ hists = <<>>
    /\ phrase_lists = <<>>
    /\ phrase_tabs = <<>>
    /\ tab_index = -1
    /\ prev_phrase_tab_index = -1
    /\ stop_words_widget = {}
    /\ general_stop = {}
    /\ folders_widget = EmptyDict
    /\ general_folders = EmptyDict
    /\ global_stop_words = {}
    /\ global_folders = EmptyDict
    /\ loaders = {}
    /\ session = NoFile
    /\ crashed = FALSE
    /\ event = [name |-> "init"]

\* What the tables and the lists hold, filters aside: the data and the
\* history (snapshots and cursor) of every table and of every list.
TableData(w) ==
    [tables |-> [t \in 1..Len(w.tabs) |->
                    [current_data |-> w.heap[w.tabs[t].current_data],
                     history |-> PickleHistory(w, w.tabs[t].history)]],
     lists  |-> [k \in 1..Len(w.lists) |->
                    [phrases |-> w.heap[w.lists[k].phrases],
                     history |-> PickleHistory(w, w.lists[k].history)]]]

\* The user picks files: the list is created, a FileLoader is started
\* (self.loader holds one FileLoader; the next load waits for it here).
LoadFiles(stem, data) ==
    /\ ~crashed
    /\ loaders = {}
    /\ LET name == FreeName(W, stem, 0) IN
        /\ Commit(load_files(W, stem))
        /\ loaders' = loaders \cup {[name |-> name, data |-> data]}
        /\ event' = [name |-> "load_files", list |-> name]
    /\ UNCHANGED session

\* A FileLoader finishes and its batch is delivered.
OnFilesLoaded ==
    /\ ~crashed
    /\ \E l \in loaders :
        /\ Commit(on_files_loaded(W, l.data, l.name))
        /\ loaders' = loaders \ {l}
        /\ event' = [name |-> "on_files_loaded", list |-> l.name, data |-> l.data,
                     pre |-> TableData(W)]
    /\ UNCHANGED session

\* The user clicks tab i.
SelectTab(i) ==
    /\ ~crashed
    /\ 0 <= i /\ i < Len(phrase_tabs) /\ i # tab_index
    /\ Commit(setCurrentIndex(W, i))
    /\ event' = [name |-> "select_tab", index |-> i]
    /\ UNCHANGED <<loaders, session>>

\* The user adds a phrase to the current list.
AddPhrase(phrase) ==
    /\ ~crashed
    /\ tab_index >= 0
    /\ Len(heap[phrase_tabs[tab_index + 1].current_data]) < MaxLen
    /\ Commit(add_phrase(W, phrase))
    /\ event' = [name |-> "add_phrase", phrase |-> phrase]
    /\ UNCHANGED <<loaders, session>>

\* Ctrl+Z / Ctrl+Y on the current table
Undo ==
    /\ ~crashed
    /\ tab_index >= 0
    /\ Commit(table_undo(W, tab_index + 1))
    /\ event' = [name |-> "undo"]
    /\ UNCHANGED <<loaders, session>>

Redo ==
    /\ ~crashed
    /\ tab_index >= 0
    /\ Commit(table_redo(W, tab_index + 1))
    /\ event' = [name |-> "redo"]
    /\ UNCHANGED <<loaders, session>>

\* A stop word is typed into the local widget.
AddStopWord(text) ==
    /\ ~crashed
    /\ add_stop_word_emits(stop_words_widget, text)
    /\ LET sw == add_stop_word(stop_words_widget, text) IN
        Commit(on_stop_words_changed([W EXCEPT !.sww = sw], sw))
    /\ event' = [name |-> "add_stop_word", text |-> text, pre |-> TableData(W)]
    /\ UNCHANGED <<loaders, session>>

\* A stop word is typed into the global widget.
AddGlobalStopWord(text) ==
    /\ ~crashed
    /\ add_stop_word_emits(general_stop, text)
    /\ LET sw == add_stop_word(general_stop, text) IN
        Commit(on_global_stop_changed([W EXCEPT !.gsw = sw], sw))
    /\ event' = [name |-> "add_global_stop_word", text |-> text,
                 pre |-> TableData(W)]
    /\ UNCHANGED <<loaders, session>>

\* A folder is created in the local / in the global folders widget.
CreateFolder(name, is_global) ==
    /\ ~crashed
    /\ IF is_global
       THEN /\ name \notin DOMAIN general_folders
            /\ Commit(update_all_tables_global_folders(
                   [W EXCEPT !.gfw = create_folder(@, name)]))
       ELSE /\ name \notin DOMAIN folders_widget
            /\ Commit(update_current_table_folders(
                   [W EXCEPT !.fw = create_folder(@, name)]))
    /\ event' = [name |-> "create_folder", folder |-> name, is_global |-> is_global,
                 warned |-> create_folder_warns(
                                IF is_global THEN general_folders ELSE folders_widget,
                                name),
                 pre |-> [folders_widget |-> folders_widget,
                          general_folders |-> general_folders,
                          global_folders |-> global_folders]]
    /\ UNCHANGED <<loaders, session>>

\* A folder is created under a name its widget holds already.
CreateExistingFolder(name, is_global) ==
    /\ ~crashed
    /\ IF is_global
       THEN /\ name \in DOMAIN general_folders
            /\ Commit([W EXCEPT !.gfw = create_folder(@, name)])
       ELSE /\ name \in DOMAIN folders_widget
            /\ Commit([W EXCEPT !.fw = create_folder(@, name)])
    /\ event' = [name |-> "create_folder", folder |-> name, is_global |-> is_global,
                 warned |-> create_folder_warns(
                                IF is_global THEN general_folders ELSE folders_widget,
                                name),
                 pre |-> [folders_widget |-> folders_widget,
                          general_folders |-> general_folders,
                          global_folders |-> global_folders]]
    /\ UNCHANGED <<loaders, session>>

\* The non-empty selections of rows, in row order.
RECURSIVE SubSeqs(_)
SubSeqs(s) ==
    IF s = <<>> THEN {<<>>}
    ELSE LET r == SubSeqs(Tail(s)) IN r \cup {<<Head(s)>> \o x : x \in r}

\* The phrase items of the folder tree, as show_context_menu collects them.
TreeItems(folders, folder_name) ==
    [i \in 1..Len(folders[folder_name]) |->
        <<folder_name, folders[folder_name][i][1], folders[folder_name][i][2]>>]

\* FoldersWidget.show_context_menu on selected phrase items of one folder:
\* "copy back" / "move back" emit phrases_back.
PhrasesBack(is_global, is_move) ==
    /\ ~crashed
    /\ LET folders == IF is_global THEN general_folders ELSE folders_widget IN
       \E folder_name \in DOMAIN folders :
       \E selected \in SubSeqs(TreeItems(folders, folder_name)) \ {<<>>} :
           /\ Commit(on_phrases_back(W, selected, is_move, is_global))
           /\ event' = [name |-> "phrases_back", selected |-> selected,
                        is_move |-> is_move, is_global |-> is_global,
                        pre |-> TableData(W)]
    /\ UNCHANGED <<loaders, session>>

\* FoldersWidget.show_context_menu on selected phrase items: "remove from
\* folder" calls batch_remove_from_folder, which emits folders_changed.
RemoveFromFolder(is_global) ==
    /\ ~crashed
    /\ LET folders == IF is_global THEN general_folders ELSE folders_widget IN
       \E folder_name \in DOMAIN folders :
       \E selected \in SubSeqs(TreeItems(folders, folder_name)) \ {<<>>} :
           /\ Commit(IF is_global
                     THEN update_all_tables_global_folders(
                              [W EXCEPT !.gfw = batch_remove_from_folder(@, selected)])
                     ELSE update_current_table_folders(
                              [W EXCEPT !.fw = batch_remove_from_folder(@, selected)]))
           /\ event' = [name |-> "remove_from_folder", selected |-> selected,
                        is_global |-> is_global]
    /\ UNCHANGED <<loaders, session>>

\* FoldersWidget.show_context_menu on a folder item: "clear folder".
ClearFolder(is_global) ==
    /\ ~crashed
    /\ LET folders == IF is_global THEN general_folders ELSE folders_widget IN
       \E folder_name \in DOMAIN folders :
           /\ Commit(IF is_global
                     THEN update_all_tables_global_folders(
                              [W EXCEPT !.gfw = clear_folder(@, folder_name)])
                     ELSE update_current_table_folders(
                              [W EXCEPT !.fw = clear_folder(@, folder_name)]))
           /\ event' = [name |-> "clear_folder", folder |-> folder_name,
                        is_global |-> is_global]
    /\ UNCHANGED <<loaders, session>>

\* Context menu of the table: "remove duplicates"
RemoveDuplicatesTable ==
    /\ ~crashed
    /\ tab_index >= 0
    /\ Commit(table_remove_duplicates(W, tab_index + 1))
    /\ event' = [name |-> "remove_duplicates", pre |-> TableData(W)]
    /\ UNCHANGED <<loaders, session>>

\* Context menu of the table: "sort by frequency", descending or ascending
SortByFrequencyTable(reverse) ==
    /\ ~crashed
    /\ tab_index >= 0
    /\ Commit(table_sort_by_frequency(W, tab_index + 1, reverse))
    /\ event' = [name |-> "sort_by_frequency", reverse |-> reverse, pre |-> TableData(W)]
    /\ UNCHANGED <<loaders, session>>

\* MainPhraseTable.delete_phrase on the row of the table menu: a state is
\* saved, and when the row has a text item every entry with that text
\* leaves current_data.
delete_phrase(w, t, visual_row) ==
    IF visual_row \in 1..Len(w.tabs[t].rows)
    THEN LET phrase_to_delete == w.tabs[t].rows[visual_row][1]
             data == WithoutTexts(w.heap[w.tabs[t].current_data], {phrase_to_delete})
         IN  SetData(save_state(w, t), t, data)
    ELSE save_state(w, t)

\* "Delete" of the menu of a row of the current table.
DeletePhrase(visual_row) ==
    /\ ~crashed
    /\ tab_index >= 0
    /\ visual_row \in 1..Len(phrase_tabs[tab_index + 1].rows)
    /\ Commit(delete_phrase(W, tab_index + 1, visual_row))
    /\ event' = [name |-> "delete_phrase",
                 shown |-> phrase_tabs[tab_index + 1].rows[visual_row],
                 src |-> heap[phrase_tabs[tab_index + 1].current_data]]
    /\ UNCHANGED <<loaders, session>>

\* Context menu of the table: "delete selected", with some boxes checked or
\* none
DeleteSelected ==
    /\ ~crashed
    /\ tab_index >= 0
    /\ \E checked \in SUBSET (1..Len(phrase_tabs[tab_index + 1].rows)) :
           /\ Commit(table_delete_selected(W, tab_index + 1, checked))
           /\ event' = [name |-> "delete_selected", checked |-> checked,
                        pre |-> TableData(W)]
    /\ UNCHANGED <<loaders, session>>

\* The workspace as a value: what the lists hold once the current tab is
\* taken over, the globals and the active index.
View(w) == save_session_file(sync_current_tab(w))

\* MainPhraseTable.contextMenuEvent / add_to_folder: rows of the current
\* table are selected and copied or moved into one of the folders the menu
\* offers; phrases_to_folder is emitted when something is selected.
PhrasesToFolder(is_global, is_move) ==
    /\ ~crashed
    /\ tab_index >= 0
    /\ LET t == tab_index + 1
           offered == IF is_global THEN DOMAIN phrase_tabs[t].global_folders
                      ELSE DOMAIN phrase_tabs[t].folders
       IN  \E folder_name \in offered :
           \E selected \in SubSeqs(phrase_tabs[t].rows) \ {<<>>} :
               /\ Commit(on_phrases_to_folder(W, folder_name, selected,
                                              is_global, is_move))
               /\ event' = IF is_move
                           THEN [name |-> "move_to_folder", folder |-> folder_name,
                                 phrases |-> selected, is_global |-> is_global,
                                 src |-> heap[phrase_tabs[t].current_data]]
                           ELSE [name |-> "copy_to_folder", folder |-> folder_name,
                                 phrases |-> selected, is_global |-> is_global,
                                 pre |-> View(W)]
    /\ UNCHANGED <<loaders, session>>

\* File > Save session
SaveSession ==
    /\ ~crashed
    /\ LET w == sync_current_tab(W) IN
        /\ Commit(w)
        /\ session' = save_session_file(w)
    /\ event' = [name |-> "save_session"]
    /\ UNCHANGED loaders

\* File > Load session, reading the file written last; kind says whether it
\* is read as written, cannot be unpickled, or carries no usable index.
LoadSession(kind) ==
    /\ ~crashed
    /\ session.exists
    /\ LET r == load_session(W, session, kind) IN
        /\ Commit(r.w)
        /\ event' = [name |-> "load_session", kind |-> kind, ok |-> r.ok,
                     pre |-> View(W)]
    /\ UNCHANGED <<loaders, session>>

\* The application is closed (or has been aborted) and started again: a new
\* MainWindow; the session file stays.
Restart ==
    /\ phrase_lists # <<>> \/ crashed
    /\ Commit([lists |-> <<>>, tabs |-> <<>>, cur |-> -1, prev |-> -1,
               sww |-> {}, gsw |-> {}, fw |-> EmptyDict, gfw |-> EmptyDict,
               gstop |-> {}, gfold |-> EmptyDict, heap |-> <<>>, hists |-> <<>>,
               crashed |-> FALSE, exc |-> FALSE])
    /\ loaders' = {}
    /\ event' = [name |-> "restart"]
    /\ UNCHANGED session

\* --------------------------------------------------------------- session
\* What the files picked for a list hold, once parsed.
Batch(stem) ==
    IF stem = "A" THEN << << <<"a">>, 5 >> >> ELSE << << <<"b">>, 0 >> >>

SessionStems == {"A", "B"}
SessionNames == {<<"A", 0>>, <<"B", 0>>}
LoadKinds == {"ok", "unreadable", "bad_index"}

\* The session is written when the work on the lists is done; after that it
\* is loaded, into the running window or into a new one, and saved again.
SessionNext ==
    \/ \E stem \in SessionStems :
           /\ ~session.exists
           /\ FreeName(W, stem, 0) \in SessionNames
           /\ LoadFiles(stem, Batch(stem))
    \/ ~session.exists /\ OnFilesLoaded
    \/ \E i \in 0..1 : ~session.exists /\ SelectTab(i)
    \/ ~session.exists /\ AddPhrase(<<"b">>)
    \/ ~session.exists /\ Undo
    \/ ~session.exists /\ AddStopWord(<<"A">>)
    \/ loaders = {} /\ SaveSession
    \/ \E kind \in LoadKinds : LoadSession(kind)
    \/ Restart

SpecSession == WInit /\ [][SessionNext]_vars

\* --------------------------------------------------------------- folders
\* The file picked for the list: three lines, two of them the same phrase
\* up to case and a trailing blank.
FolderBatch == << << <<"a", " ">>, 5 >>, << <<"b">>, 0 >>, << <<"A">>, 0 >> >>

FolderNames == {"F"}

FoldersNext ==
    \/ /\ phrase_lists = <<>>
       /\ LoadFiles("A", FolderBatch)
    \/ OnFilesLoaded
    \/ \E name \in FolderNames, is_global \in BOOLEAN : CreateFolder(name, is_global)
    \/ \E is_global \in BOOLEAN : PhrasesToFolder(is_global, TRUE)
    \/ PhrasesToFolder(FALSE, FALSE)


SpecFolders == WInit /\ [][FoldersNext]_vars

\* ------------------------------------------------------ folder contents
\* The file picked for the list: the same text with two frequencies.
OpsBatch == << << <<"a">>, 1 >>, << <<"a">>, 2 >> >>

FolderOpsNext ==
    \/ /\ phrase_lists = <<>>
       /\ LoadFiles("A", OpsBatch)
    \/ OnFilesLoaded
    \/ \E name \in FolderNames, is_global \in BOOLEAN : CreateFolder(name, is_global)
    \/ \E is_global \in BOOLEAN : PhrasesToFolder(is_global, FALSE)
    \/ PhrasesToFolder(FALSE, TRUE)
    \/ \E is_global \in BOOLEAN : RemoveFromFolder(is_global)
    \/ \E is_global \in BOOLEAN : ClearFolder(is_global)

SpecFolderOps == WInit /\ [][FolderOpsNext]_vars

\* Folders under names that differ in letter case only, a name used in
\* both scopes, and attempts to create a folder under a name that is taken.
OpsNames == {"F", "f"}

FolderNamesNext ==
    \/ /\ phrase_lists = <<>>
       /\ LoadFiles("A", Batch("A"))
    \/ OnFilesLoaded
    \/ \E name \in OpsNames : CreateFolder(name, FALSE)
    \/ CreateFolder("F", TRUE)
    \/ \E name \in OpsNames, is_global \in BOOLEAN : CreateExistingFolder(name, is_global)
    \/ \E is_global \in BOOLEAN : PhrasesToFolder(is_global, FALSE)

SpecFolderNames == WInit /\ [][FolderNamesNext]_vars

\* Copies into local and global folders from a list of two entries, between
\* moves into the local folder.
CopyBatch == SubSeq(FolderBatch, 1, 2)

CopyNext ==
    \/ /\ phrase_lists = <<>>
       /\ LoadFiles("A", CopyBatch)
    \/ OnFilesLoaded
    \/ \E name \in FolderNames, is_global \in BOOLEAN : CreateFolder(name, is_global)
    \/ \E is_global \in BOOLEAN : PhrasesToFolder(is_global, FALSE)
    \/ PhrasesToFolder(FALSE, TRUE)

SpecCopy == WInit /\ [][CopyNext]_vars

\* ------------------------------------------------------------------ tabs
\* del self.phrase_lists[name]
DelList(w, name) ==
    IF w.crashed THEN w
    ELSE IF ~HasList(w, name) THEN [w EXCEPT !.crashed = TRUE]
    ELSE [w EXCEPT !.lists = SubSeq(@, 1, ListAt(w, name) - 1)
                             \o SubSeq(@, ListAt(w, name) + 1, Len(@))]

\* MainWindow.delete_tab(index), the question answered with Yes: the tab is
\* removed (currentChanged may fire), then the list is deleted.
delete_tab(w, index) == DelList(removeTab(w, index), w.tabs[index + 1].name)

\* "Delete" in the context menu of tab i
DeleteTab(i) ==
    /\ ~crashed
    /\ 0 <= i /\ i < Len(phrase_tabs)
    /\ Commit(delete_tab(W, i))
    /\ event' = [name |-> "delete_tab", index |-> i]
    /\ UNCHANGED <<loaders, session>>

TabsNext ==
    \/ \E stem \in SessionStems :
           /\ FreeName(W, stem, 0) \in SessionNames
           /\ LoadFiles(stem, Batch(stem))
    \/ OnFilesLoaded
    \/ \E i \in 0..1 : SelectTab(i)
    \/ AddStopWord(<<"A">>)
    \/ AddGlobalStopWord(<<"b">>)
    \/ \E name \in FolderNames : CreateFolder(name, FALSE)
    \/ \E i \in 0..1 : DeleteTab(i)

SpecTabs == WInit /\ [][TabsNext]_vars

\* Up to three lists: two files with the same stem and one more.
WideNames == {<<"A", 0>>, <<"A", 1>>, <<"B", 0>>}

WideNext ==
    \/ \E stem \in SessionStems :
           /\ FreeName(W, stem, 0) \in WideNames
           /\ LoadFiles(stem, Batch(stem))
    \/ OnFilesLoaded
    \/ \E i \in 0..2 : SelectTab(i)
    \/ AddStopWord(<<"A">>)
    \/ \E i \in 0..2 : DeleteTab(i)

SpecWide == WInit /\ [][WideNext]_vars

\* self.phrase_lists[name] = pl: the value under a key the dict holds is
\* replaced where it stands, a new key goes to the end.
SetList(lists, pl) ==
    IF \E k \in 1..Len(lists) : lists[k].name = pl.name
    THEN [k \in 1..Len(lists) |-> IF lists[k].name = pl.name THEN pl ELSE lists[k]]
    ELSE Append(lists, pl)

\* The second half of rename_tab: the tab takes the name, the list is
\* popped from the dict and put back under the new name.
MoveList(w, index, old_name, new_name) ==
    LET w1 == [w EXCEPT !.tabs[index + 1].name = new_name] IN
    IF ~HasList(w1, old_name) THEN [w1 EXCEPT !.crashed = TRUE]
    ELSE LET pl == [w1.lists[ListAt(w1, old_name)] EXCEPT !.name = new_name]
         IN  [w1 EXCEPT !.lists = SetList(DelList(w1, old_name).lists, pl)]

\* Mutant: the new name is not looked up.
rename_tab_unchecked(w, index, new_name) ==
    IF new_name = w.tabs[index + 1].name THEN w
    ELSE MoveList(w, index, w.tabs[index + 1].name, new_name)

\* MainWindow.rename_tab shows the warning that the name is taken.
rename_tab_warns(w, index, new_name) ==
    new_name # w.tabs[index + 1].name /\ HasList(w, new_name)

\* MainWindow.rename_tab(index) with the (non-empty) name the dialog
\* returned
rename_tab(w, index, new_name) ==
    IF new_name = w.tabs[index + 1].name \/ HasList(w, new_name) THEN w
    ELSE MoveList(w, index, w.tabs[index + 1].name, new_name)

\* "Rename" in the context menu of tab i
RenameTab(i, new_name) ==
    /\ ~crashed
    /\ 0 <= i /\ i < Len(phrase_tabs)
    /\ Commit(rename_tab(W, i, new_name))
    /\ event' = [name |-> "rename_tab", index |-> i, new_name |-> new_name,
                 old_name |-> phrase_tabs[i + 1].name,
                 warned |-> rename_tab_warns(W, i, new_name),
                 pre |-> View(W)]
    /\ UNCHANGED <<loaders, session>>

\* MainWindow.create_new_tab called with a name
CreateNewTab(name) ==
    /\ ~crashed
    /\ Commit(create_new_tab(W, name))
    /\ event' = [name |-> "create_new_tab", tab |-> name, pre |-> View(W),
                 tabs |-> Len(phrase_tabs)]
    /\ UNCHANGED <<loaders, session>>

\* Lists under three names: two loads of files with one stem, a tab
\* created directly, renames among the names, tabs closed; then the
\* session is saved and loaded. Names change
\* while no loader is running (a batch delivered under a name that has
\* moved to another list would let that list grow without bound).
ListNameSet == {<<"A", 0>>, <<"A", 1>>, <<"B", 0>>}

NamesNext ==
    \/ /\ Len(phrase_lists) < 2 /\ ~session.exists
       /\ LoadFiles("A", Batch("A"))
    \/ OnFilesLoaded
    \/ \E i \in 0..1, new_name \in ListNameSet :
           loaders = {} /\ ~session.exists /\ RenameTab(i, new_name)
    \/ \E name \in ListNameSet :
           /\ loaders = {} /\ ~session.exists
           /\ Len(phrase_lists) < 2 \/ HasList(W, name)
           /\ CreateNewTab(name)
    \/ \E i \in 0..1 : ~session.exists /\ DeleteTab(i)
    \/ loaders = {} /\ ~session.exists /\ Len(phrase_lists) = 2 /\ SaveSession
    \/ loaders = {} /\ LoadSession("ok")

SpecNames == WInit /\ [][NamesNext]_vars

\* ------------------------------------------------------ menu under load
\* The context menu of the current table is open (QMenu.exec_ runs an event
\* loop) when the FileLoader of another tab finishes: on_files_loaded runs
\* and makes that tab the current one; then the user picks "move to folder"
\* from the menu, which still belongs to the table it was opened on and
\* names one of that table's local folders.
MoveAfterLoad ==
    /\ ~crashed
    /\ tab_index >= 0
    /\ \E l \in loaders :
       \E folder_name \in DOMAIN phrase_tabs[tab_index + 1].folders :
       \E selected \in SubSeqs(phrase_tabs[tab_index + 1].rows) \ {<<>>} :
           /\ l.name # phrase_tabs[tab_index + 1].name
           /\ ~on_files_loaded(W, l.data, l.name).crashed
           /\ Commit(on_phrases_to_folder(on_files_loaded(W, l.data, l.name),
                                          folder_name, selected, FALSE, TRUE))
           /\ loaders' = loaders \ {l}
           /\ event' = [name |-> "move_after_load", folder |-> folder_name,
                        phrases |-> selected,
                        took_effect |-> folder_name \in
                            DOMAIN on_files_loaded(W, l.data, l.name).fw,
                        pre |-> View(on_files_loaded(W, l.data, l.name))]
    /\ UNCHANGED session

\* What the files picked for the two lists hold.
MenuBatch(stem) == IF stem = "A" THEN Batch("A") ELSE FolderBatch

MenuNext ==
    \/ \E stem \in SessionStems :
           /\ FreeName(W, stem, 0) \in SessionNames
           /\ LoadFiles(stem, MenuBatch(stem))
    \/ OnFilesLoaded
    \/ \E i \in 0..1 : SelectTab(i)
    \/ \E name \in FolderNames : CreateFolder(name, FALSE)
    \/ PhrasesToFolder(FALSE, TRUE)
    \/ MoveAfterLoad

SpecMenu == WInit /\ [][MenuNext]_vars

\* ------------------------------------------------------ search, driven
\* MainWindow.on_search_changed for the current tab: the text or one of the
\* two check boxes of its search widget changes.
SetSearch(text, only_matches, exact) ==
    /\ ~crashed
    /\ tab_index >= 0
    /\ LET t  == tab_index + 1
           w1 == set_search(W, t, text, only_matches, exact)
           rows == get_matching_rows(w1.tabs[t])
       IN  /\ <<text, only_matches, exact>> #
                 <<phrase_tabs[t].search_text, phrase_tabs[t].search_only_matches,
                   phrase_tabs[t].exact_search>>
           /\ Commit(w1)
           /\ event' = [name |-> "set_search", pre |-> TableData(W),
                        row |-> IF text # <<>> /\ ~only_matches /\ rows # <<>>
                                THEN {rows[1]} ELSE {}]
    /\ UNCHANGED <<loaders, session>>

\* The rows the last step selected, when that step was a search step.
Selected ==
    IF event.name \in {"set_search", "next_search", "prev_search"}
    THEN event.row ELSE {}

\* The rows selected by the next steps made in a row, the last MaxTrail.
Trail(row) ==
    LET so_far == IF event.name = "next_search" THEN event.trail ELSE <<>>
        all == so_far \o <<row>>
    IN  IF Len(all) > MaxTrail THEN Tail(all) ELSE all

\* MainWindow.next_search / prev_search for the current tab; the buttons
\* are enabled while the search field holds a text.
Navigate(step) ==
    /\ ~crashed
    /\ tab_index >= 0
    /\ phrase_tabs[tab_index + 1].search_text # <<>>
    /\ LET t == tab_index + 1
           r == search_step(W, t, step)
       IN  /\ Commit(r.w)
           /\ event' = [name |-> IF step = 1 THEN "next_search" ELSE "prev_search",
                        matches |-> get_matching_rows(phrase_tabs[t]),
                        was |-> Selected, ret |-> r.ret, row |-> r.row,
                        trail |-> IF step = 1 THEN Trail(r.row) ELSE <<>>]
    /\ UNCHANGED <<loaders, session>>

NextSearch == Navigate(1)

PrevSearch == Navigate(-1)

\* One file of three phrases; its list is searched and filtered.
SearchBatch ==
    << << <<"a", " ", "b">>, 1 >>, << <<"a", "b">>, 2 >>, << <<"b">>, 0 >> >>

SearchTerms == {<<>>, <<"A">>, <<"b">>}

SearchNext ==
    \/ /\ phrase_lists = <<>>
       /\ LoadFiles("A", SearchBatch)
    \/ OnFilesLoaded
    \/ AddPhrase(<<"b">>)
    \/ Undo
    \/ \E text \in SearchTerms, only_matches \in BOOLEAN, exact \in BOOLEAN :
           SetSearch(text, only_matches, exact)
    \/ NextSearch
    \/ PrevSearch
    \/ AddStopWord(<<"A", "b">>)
    \/ AddGlobalStopWord(<<"b">>)

SpecSearch == WInit /\ [][SearchNext]_vars

\* --------------------------------------------- PhraseProcessor, driven
\* The functions of PhraseProcessor are static and pure: a call is made on
\* an input and what it returns is recorded.
SeqsUpTo(S, n) == UNION {[1..k -> S] : k \in 0..n}

\* "cheap flights", "flights", "category", "white house"
CheapFlights == <<"c", "h", "e", "a", "p", " ", "f", "l", "i", "g", "h", "t", "s">>
Flights == <<"f", "l", "i", "g", "h", "t", "s">>
Cheap == <<"c", "h", "e", "a", "p">>
Category == <<"c", "a", "t", "e", "g", "o", "r", "y">>
Cat == <<"c", "a", "t">>
WhiteHouse == <<"w", "h", "i", "t", "e", " ", "h", "o", "u", "s", "e">>
White == <<"w", "h", "i", "t", "e">>

FilterEntries ==
    { << <<"a", " ", "b">>, 1 >>, << <<"a", "b">>, 2 >>, << <<"b">>, 0 >>,
      << <<"A">>, 1 >>, << <<" ", "b", " ">>, 1 >> }

FilterStopWords == SUBSET {<<"a">>, <<"b">>, <<"a", "b">>}

GroupWords ==
    { <<"a", "a", "a", "a">>, <<"b", "b", "b", "b">>, <<"A", "a", "a", "a">>,
      <<"b", "b", "b", "b", "b">>, <<"a", "b", "a">> }

\* Phrases of one or two of the words, and the empty phrase.
GroupTexts ==
    {<<>>} \cup GroupWords \cup {u \o <<" ">> \o v : u, v \in GroupWords}

GroupEntries ==
    { << <<"a", "a", "a", "a">>, 1 >>, << <<"a", "a", "a", "a">>, 2 >>,
      << <<"a", "b", "a", " ", "b", "b", "b", "b">>, 1 >>, << <<"a", "b", "a">>, 0 >> }

\* Entries to group: the word of the reserved key as a text of its own and
\* next to a longer word, and texts with and without a long word.
ReservedEntries ==
    { << Other, 1 >>, << <<"a", "b", "a">>, 0 >>, << <<"a", "a", "a", "a">>, 1 >>,
      << Other \o <<" ">> \o <<"b", "b", "b", "b", "b", "b", "b">>, 2 >> }

\* Entries with texts that differ in case or in surrounding blanks only,
\* and with equal frequencies.
DedupEntries ==
    { << <<"a">>, 1 >>, << <<"A">>, 2 >>, << <<"b", " ">>, 1 >>, << <<"b">>, 2 >> }

\* "Apple", "apple", "Banana"
Apple == <<"A", "p", "p", "l", "e">>
apple == <<"a", "p", "p", "l", "e">>
Banana == <<"B", "a", "n", "a", "n", "a">>

ProcessorInputs ==
    {[phrases |-> p, stop_words |-> sw] :
        p \in SeqsUpTo(FilterEntries, MaxPhrases - 1), sw \in FilterStopWords}
    \cup {[phrases |-> <<<<CheapFlights, 10>>, <<Flights, 5>>>>, stop_words |-> {Cheap}],
          [phrases |-> <<<<Category, 1>>>>, stop_words |-> {Cat}],
          [phrases |-> <<<<WhiteHouse, 1>>>>, stop_words |-> {}]}
    \cup {[phrases |-> <<<<t, 1>>>>, stop_words |-> {}] : t \in GroupTexts}
    \cup {[phrases |-> p, stop_words |-> {}] : p \in SeqsUpTo(GroupEntries, MaxPhrases)}
    \cup {[phrases |-> p, stop_words |-> {}] : p \in SeqsUpTo(DedupEntries, MaxPhrases)}
    \cup {[phrases |-> p, stop_words |-> {}] : p \in SeqsUpTo(ReservedEntries, MaxPhrases - 1)}
    \cup {[phrases |-> <<<<Apple, 100>>, <<apple, 5>>, <<Banana, 50>>>>,
           stop_words |-> {}]}

PInit ==
    /\ heap = <<>>
    /\ hm = NewHistory
    /\ live = None
    /\ ret = None
    /\ op = "init"
    /\ before = [len |-> 0, idx |-> -1]
    /\ given = [populated |-> FALSE, ok |-> FALSE, vals |-> <<>>]
    /\ hists = <<>>
    /\ phrase_lists = <<>>
    /\ phrase_tabs = <<>>
    /\ tab_index = -1
    /\ prev_phrase_tab_index = -1
    /\ stop_words_widget = {}
    /\ general_stop = {}
    /\ folders_widget = EmptyDict
    /\ general_folders = EmptyDict
    /\ global_stop_words = {}
    /\ global_folders = EmptyDict
    /\ loaders = {}
    /\ session = NoFile
    /\ crashed = FALSE
    /\ \E input \in ProcessorInputs :
           event = [name |-> "input", phrases |-> input.phrases,
                    stop_words |-> input.stop_words]

\* PhraseProcessor.filter_by_stop_words(phrases, stop_words), main.py
FilterByStopWords ==
    /\ event.name = "input"
    /\ event' = [name |-> "filter_by_stop_words", phrases |-> event.phrases,
                 stop_words |-> event.stop_words,
                 result |-> main_filter_by_stop_words(event.phrases, event.stop_words)]
    /\ UNCHANGED <<heap, hm, live, ret, op, before, given, hists, phrase_lists,
                   phrase_tabs, tab_index, prev_phrase_tab_index,
                   stop_words_widget, general_stop, folders_widget,
                   general_folders, global_stop_words, global_folders,
                   loaders, session, crashed>>

\* PhraseProcessor.group_phrases(phrases)
GroupPhrases ==
    /\ event.name = "input"
    /\ event' = [name |-> "group_phrases", phrases |-> event.phrases,
                 result |-> group_phrases(event.phrases)]
    /\ UNCHANGED <<heap, hm, live, ret, op, before, given, hists, phrase_lists,
                   phrase_tabs, tab_index, prev_phrase_tab_index,
                   stop_words_widget, general_stop, folders_widget,
                   general_folders, global_stop_words, global_folders,
                   loaders, session, crashed>>

\* The functions that give a phrase sequence from one; one of them may be
\* called on what another returned.
ListOps ==
    {"remove_duplicates", "sort_phrases_alphabetically", "sort_phrases_by_frequency"}

\* The sequence the next call is made on, and the call it came from.
Arg == IF event.name = "input" THEN event.phrases ELSE event.result

Prior ==
    IF event.name = "input"
    THEN [name |-> "input", reverse |-> FALSE, phrases |-> <<>>]
    ELSE [name |-> event.name, reverse |-> event.reverse, phrases |-> event.phrases]

CanCall ==
    \/ event.name = "input" /\ event.stop_words = {}
    \/ event.name \in ListOps /\ event.prior.name = "input"

\* PhraseProcessor.remove_duplicates(phrases)
RemoveDuplicates ==
    /\ CanCall
    /\ event' = [name |-> "remove_duplicates", reverse |-> FALSE, phrases |-> Arg,
                 result |-> remove_duplicates(Arg), prior |-> Prior]
    /\ UNCHANGED <<heap, hm, live, ret, op, before, given, hists, phrase_lists,
                   phrase_tabs, tab_index, prev_phrase_tab_index,
                   stop_words_widget, general_stop, folders_widget,
                   general_folders, global_stop_words, global_folders,
                   loaders, session, crashed>>

\* PhraseProcessor.sort_phrases_alphabetically(phrases, reverse)
SortAlphabetically(reverse) ==
    /\ CanCall
    /\ event' = [name |-> "sort_phrases_alphabetically", reverse |-> reverse,
                 phrases |-> Arg,
                 result |-> sort_phrases_alphabetically(Arg, reverse),
                 prior |-> Prior]
    /\ UNCHANGED <<heap, hm, live, ret, op, before, given, hists, phrase_lists,
                   phrase_tabs, tab_index, prev_phrase_tab_index,
                   stop_words_widget, general_stop, folders_widget,
                   general_folders, global_stop_words, global_folders,
                   loaders, session, crashed>>

\* PhraseProcessor.sort_phrases_by_frequency(phrases, reverse)
SortByFrequency(reverse) ==
    /\ CanCall
    /\ event' = [name |-> "sort_phrases_by_frequency", reverse |-> reverse,
                 phrases |-> Arg,
                 result |-> sort_phrases_by_frequency(Arg, reverse),
                 prior |-> Prior]
    /\ UNCHANGED <<heap, hm, live, ret, op, before, given, hists, phrase_lists,
                   phrase_tabs, tab_index, prev_phrase_tab_index,
                   stop_words_widget, general_stop, folders_widget,
                   general_folders, global_stop_words, global_folders,
                   loaders, session, crashed>>

ProcessorNext ==
    \/ FilterByStopWords
    \/ GroupPhrases
    \/ RemoveDuplicates
    \/ \E reverse \in BOOLEAN : SortAlphabetically(reverse)
    \/ \E reverse \in BOOLEAN : SortByFrequency(reverse)

SpecProcessor == PInit /\ [][ProcessorNext]_vars

\* ---------------------------------------------- transliteration, driven
\* Texts in Latin, in Cyrillic, and mixed ones with "ru_a" and with "ru_yo".
TranslitTexts == {<<"b">>, <<"ru_b">>, <<"ru_a", "b">>, <<"ru_yo", "b">>}

TranslitInputs ==
    {[phrases |-> p, raises |-> r] :
        p \in SeqsUpTo(TranslitTexts \X {1, 2}, MaxPhrases - 1),
        r \in {{}, {<<"b">>}, {<<"ru_b">>}}}

TInit ==
    /\ heap = <<>>
    /\ hm = NewHistory
    /\ live = None
    /\ ret = None
    /\ op = "init"
    /\ before = [len |-> 0, idx |-> -1]
    /\ given = [populated |-> FALSE, ok |-> FALSE, vals |-> <<>>]
    /\ hists = <<>>
    /\ phrase_lists = <<>>
    /\ phrase_tabs = <<>>
    /\ tab_index = -1
    /\ prev_phrase_tab_index = -1
    /\ stop_words_widget = {}
    /\ general_stop = {}
    /\ folders_widget = EmptyDict
    /\ general_folders = EmptyDict
    /\ global_stop_words = {}
    /\ global_folders = EmptyDict
    /\ loaders = {}
    /\ session = NoFile
    /\ crashed = FALSE
    /\ \E input \in TranslitInputs :
           event = [name |-> "input", phrases |-> input.phrases,
                    raises |-> input.raises]

\* PhraseProcessor.transliterate_phrases(phrases, reverse), main.py
Transliterate(reverse) ==
    /\ event.name = "input"
    /\ event' = [name |-> "transliterate_phrases", phrases |-> event.phrases,
                 raises |-> event.raises, reverse |-> reverse,
                 result |-> main_transliterate_phrases(event.phrases, reverse,
                                                       event.raises)]
    /\ UNCHANGED <<heap, hm, live, ret, op, before, given, hists, phrase_lists,
                   phrase_tabs, tab_index, prev_phrase_tab_index,
                   stop_words_widget, general_stop, folders_widget,
                   general_folders, global_stop_words, global_folders,
                   loaders, session, crashed>>

TranslitNext == \E reverse \in BOOLEAN : Transliterate(reverse)

SpecTranslit == TInit /\ [][TranslitNext]_vars

\* -------------------------------------------------- FileLoader, driven
MaxFiles == 2

File(suffix, readable, columns, rows) ==
    [suffix |-> suffix, readable |-> readable, columns |-> columns, rows |-> rows]

\* Files of each kind: text files with and without frequencies, one whose
\* second line has a frequency int() does not take, one that cannot be
\* opened; workbooks of one and two columns, one with a text in column 1 of
\* its second row, one with a negative number; a file of another kind.
LoaderFiles ==
    {File("txt", TRUE, 0, << <<<<"a", " ">>, Cell("int", 5)>>, <<<<"b">>, Cell("none", 0)>> >>),
     File("txt", TRUE, 0, << <<<<"a">>, Cell("str", 0)>>, <<<<"b">>, Cell("int", -1)>> >>),
     File("txt", TRUE, 0, << <<<<"a">>, Cell("int", 1)>>, <<<<"b">>, Cell("sup", 0)>> >>),
     File("txt", FALSE, 0, << <<<<"a">>, Cell("int", 1)>> >>),
     File("xlsx", TRUE, 2, << <<<<"a">>, Cell("int", 3)>>, <<<<"b", " ">>, Cell("nan", 0)>> >>),
     File("xlsx", TRUE, 2, << <<<<"a">>, Cell("int", 1)>>, <<<<"b">>, Cell("str", 0)>> >>),
     File("xlsx", TRUE, 2, << <<<<"a">>, Cell("int", -1)>> >>),
     File("xlsx", TRUE, 1, << <<<<"a">>, Cell("none", 0)>>, <<<<"b">>, Cell("none", 0)>> >>),
     File("xlsx", FALSE, 2, << <<<<"a">>, Cell("int", 1)>> >>),
     File("csv", TRUE, 2, << <<<<"a">>, Cell("int", 1)>> >>)}

LoaderBatches == SeqsUpTo(LoaderFiles, MaxFiles) \ {<<>>}

LInit ==
    /\ heap = <<>>
    /\ hm = NewHistory
    /\ live = None
    /\ ret = None
    /\ op = "init"
    /\ before = [len |-> 0, idx |-> -1]
    /\ given = [populated |-> FALSE, ok |-> FALSE, vals |-> <<>>]
    /\ hists = <<>>
    /\ phrase_lists = <<>>
    /\ phrase_tabs = <<>>
    /\ tab_index = -1
    /\ prev_phrase_tab_index = -1
    /\ stop_words_widget = {}
    /\ general_stop = {}
    /\ folders_widget = EmptyDict
    /\ general_folders = EmptyDict
    /\ global_stop_words = {}
    /\ global_folders = EmptyDict
    /\ loaders = {}
    /\ session = NoFile
    /\ crashed = FALSE
    /\ \E files \in LoaderBatches :
           event = [name |-> "run", file_paths |-> files, i |-> 0,
                    all_phrases |-> <<>>, errors |-> <<>>]

\* FileLoader.run, one file of the loop
LoaderNextFile ==
    /\ event.name = "run"
    /\ event.i < Len(event.file_paths)
    /\ LET st == LoaderStep([all_phrases |-> event.all_phrases, errors |-> event.errors],
                            event.file_paths, event.i + 1)
       IN  event' = [event EXCEPT !.i = @ + 1, !.all_phrases = st.all_phrases,
                                  !.errors = st.errors]
    /\ UNCHANGED <<heap, hm, live, ret, op, before, given, hists, phrase_lists,
                   phrase_tabs, tab_index, prev_phrase_tab_index,
                   stop_words_widget, general_stop, folders_widget,
                   general_folders, global_stop_words, global_folders,
                   loaders, session, crashed>>

\* FileLoader.run after the loop: self.finished.emit(all_phrases)
LoaderFinished ==
    /\ event.name = "run"
    /\ event.i = Len(event.file_paths)
    /\ event' = [event EXCEPT !.name = "finished"]
    /\ UNCHANGED <<heap, hm, live, ret, op, before, given, hists, phrase_lists,
                   phrase_tabs, tab_index, prev_phrase_tab_index,
                   stop_words_widget, general_stop, folders_widget,
                   general_folders, global_stop_words, global_folders,
                   loaders, session, crashed>>

LoaderNext == LoaderNextFile \/ LoaderFinished

SpecLoader == LInit /\ [][LoaderNext]_vars

\* ------------------------------------------------------------ ingestion
\* The files picked: a text file of one line, a workbook with a negative
\* number in column 1, and a text file next to a workbook that fails in its
\* second row.
IngestBatches ==
    {<< File("txt", TRUE, 0, << <<<<"a">>, Cell("int", 5)>> >>) >>,
     << File("xlsx", TRUE, 2, << <<<<"a">>, Cell("int", -1)>> >>) >>,
     << File("txt", TRUE, 0, << <<<<"a", " ">>, Cell("none", 0)>> >>),
        File("xlsx", TRUE, 2, << <<<<"A">>, Cell("int", 1)>>, <<<<"b">>, Cell("str", 0)>> >>) >>}

IngestNext ==
    \/ \E files \in IngestBatches :
           /\ phrase_lists = <<>>
           /\ LoadFiles("A", FileLoader_run(files).all_phrases)
    \/ OnFilesLoaded
    \/ AddPhrase(<<"b">>)
    \/ Undo
    \/ CreateFolder("F", FALSE)
    \/ PhrasesToFolder(FALSE, FALSE)

SpecIngest == WInit /\ [][IngestNext]_vars

\* ---------------------------------------------------------- table actions
\* The file picked for the list: two lines with one text up to case.
ActionsBatch == << << <<"a">>, 1 >>, << <<"A">>, 2 >> >>

ActionsNext ==
    \/ /\ phrase_lists = <<>>
       /\ LoadFiles("A", ActionsBatch)
    \/ OnFilesLoaded
    \/ RemoveDuplicatesTable
    \/ SortByFrequencyTable(TRUE)
    \/ DeleteSelected
    \/ CreateFolder("F", FALSE)
    \/ PhrasesToFolder(FALSE, TRUE)
    \/ PhrasesBack(FALSE, TRUE)

SpecActions == WInit /\ [][ActionsNext]_vars

\* ------------------------------------------------------- undo and redo
\* The actions of the table that save a state and change the data.
TableActions == {"remove_duplicates", "sort_by_frequency", "delete_selected"}

\* Ctrl+Z on the current table; the event keeps what the tables held before
\* the step and, when the step follows a table action, what they held
\* before that action.
UndoStep ==
    /\ ~crashed
    /\ tab_index >= 0
    /\ Commit(table_undo(W, tab_index + 1))
    /\ event' = [name |-> "undo_step", at |-> TableData(W),
                 action |-> IF event.name \in TableActions THEN event.name ELSE "none",
                 pre |-> IF event.name \in TableActions THEN event.pre ELSE TableData(W)]
    /\ UNCHANGED <<loaders, session>>

\* Ctrl+Shift+Z on the current table; the event keeps what the tables held
\* before the step and, when the step follows an undo, what they held
\* before that undo and the table action the undo followed.
RedoStep ==
    /\ ~crashed
    /\ tab_index >= 0
    /\ Commit(table_redo(W, tab_index + 1))
    /\ event' = [name |-> "redo_step", at |-> TableData(W),
                 action |-> IF event.name = "undo_step" THEN event.action ELSE "none",
                 pre |-> IF event.name = "undo_step" THEN event.at ELSE TableData(W)]
    /\ UNCHANGED <<loaders, session>>

UndoNext ==
    \/ /\ phrase_lists = <<>>
       /\ LoadFiles("A", ActionsBatch)
    \/ OnFilesLoaded
    \/ RemoveDuplicatesTable
    \/ DeleteSelected
    \/ UndoStep
    \/ RedoStep

SpecUndo == WInit /\ [][UndoNext]_vars

\* ------------------------------------------------------ tab switches
\* A click on tab i of the lists, as SelectTab; the event keeps the tab the
\* click left, what the tables held before it and, when it follows a click
\* that left tab i, what they held before that click.
SwitchTab(i) ==
    /\ ~crashed
    /\ 0 <= i /\ i < Len(phrase_tabs) /\ i # tab_index
    /\ Commit(setCurrentIndex(W, i))
    /\ event' = [name |-> "switch_tab", index |-> i, from |-> tab_index,
                 back |-> event.name = "switch_tab" /\ event.from = i,
                 pre |-> IF event.name = "switch_tab" /\ event.from = i
                         THEN event.pre ELSE TableData(W)]
    /\ UNCHANGED <<loaders, session>>

SwitchNext ==
    \/ \E stem \in SessionStems :
           /\ Len(phrase_lists) < 2
           /\ loaders = {}
           /\ LoadFiles(stem, IF stem = "A" THEN ActionsBatch ELSE Batch(stem))
    \/ OnFilesLoaded
    \/ RemoveDuplicatesTable
    \/ \E i \in 0..1 : SwitchTab(i)

SpecSwitch == WInit /\ [][SwitchNext]_vars

\* ------------------------------------------------- deletion of a row
\* Two entries of one text with an entry between them that a stop word or
\* the search can hide.
DeleteBatch == << << <<"a">>, 1 >>, << <<"b">>, 0 >>, << <<"a">>, 2 >> >>

DeleteNext ==
    \/ /\ phrase_lists = <<>>
       /\ LoadFiles("A", DeleteBatch)
    \/ OnFilesLoaded
    \/ AddStopWord(<<"b">>)
    \/ \E only_matches \in BOOLEAN : SetSearch(<<"a">>, only_matches, FALSE)
    \/ \E visual_row \in 1..MaxPhrases : DeletePhrase(visual_row)
    \/ UndoStep

SpecDelete == WInit /\ [][DeleteNext]_vars

\* ------------------------------------------- tab actions under load
\* Loads of files of one stem, renamed and closed tabs while a loader
\* runs. A new load starts only while no list holds more than one entry.
FlightNext ==
    \/ /\ Len(phrase_lists) < 2
       /\ \A k \in 1..Len(phrase_lists) : Len(heap[phrase_lists[k].phrases]) <= 1
       /\ LoadFiles("A", Batch("A"))
    \/ OnFilesLoaded
    \/ \E i \in 0..1, new_name \in ListNameSet : RenameTab(i, new_name)
    \/ \E i \in 0..1 : DeleteTab(i)

SpecFlight == WInit /\ [][FlightNext]_vars

\* ---------------------------------------------- HistoryManager, driven
\* The lists a client of the history holds.
HEntries == {<< <<"a">>, 5 >>, << <<"b">>, 0 >>}
HLists == {<<>>, << << <<"a">>, 5 >> >>,
           << << <<"a">>, 5 >>, << <<"b">>, 0 >> >>}

\* Addresses are renamed to the order in which the history and its client
\* reach them; objects nothing refers to any more are dropped.
HRoots(h, lv, rt) ==
    Dedup(SelectSeqBy(h.history \o <<lv, rt>>, {None}))

HRename(roots, r) == IF r = None THEN None ELSE IndexOf(roots, r)

HCommit(hp, h, lv, rt) ==
    LET roots == HRoots(h, lv, rt) IN
    /\ heap' = [i \in 1..Len(roots) |-> hp[roots[i]]]
    /\ hm' = [history |-> [i \in 1..Len(h.history) |-> HRename(roots, h.history[i])],
              current_index |-> h.current_index]
    /\ live' = HRename(roots, lv)
    /\ ret' = HRename(roots, rt)
    /\ UNCHANGED wvars

HInit ==
    /\ heap = (1 :> <<>>)
    /\ hm = NewHistory
    /\ live = 1
    /\ ret = None
    /\ op = "init"
    /\ before = [len |-> 0, idx |-> -1]
    /\ given = [populated |-> FALSE, ok |-> FALSE, vals |-> <<>>]
    /\ hists = <<>>
    /\ phrase_lists = <<>>
    /\ phrase_tabs = <<>>
    /\ tab_index = -1
    /\ prev_phrase_tab_index = -1
    /\ stop_words_widget = {}
    /\ general_stop = {}
    /\ folders_widget = EmptyDict
    /\ general_folders = EmptyDict
    /\ global_stop_words = {}
    /\ global_folders = EmptyDict
    /\ loaders = {}
    /\ session = NoFile
    /\ crashed = FALSE
    /\ event = [name |-> "init"]

\* MainPhraseTable.load_data: a new list becomes current and the history is
\* reset to it.
HSetInitialState ==
    \E vals \in HLists :
        LET a == Alloc(heap, vals)
            r == set_initial_state(a.heap, hm, a.ref)
        IN  /\ HCommit(r.heap, r.h, a.ref, None)
            /\ op' = "set_initial_state"
            /\ before' = [len |-> Len(hm.history), idx |-> hm.current_index]
            /\ given' = [populated |-> TRUE, ok |-> TRUE, vals |-> <<vals>>]

\* MainPhraseTable.save_state: history.add_state(current_data)
HAddState ==
    LET r == add_state(heap, hm, live)
        straight == /\ given.ok
                    /\ hm.current_index = Len(hm.history) - 1
                    /\ Len(hm.history) < max_history
    IN  /\ HCommit(r.heap, r.h, live, None)
        /\ op' = "add_state"
        /\ before' = [len |-> Len(hm.history), idx |-> hm.current_index]
        /\ given' = IF straight THEN [given EXCEPT !.vals = Append(@, heap[live])]
                    ELSE [given EXCEPT !.ok = FALSE, !.vals = <<>>]

HUndo ==
    LET r == undo(heap, hm)
    IN  /\ HCommit(r.heap, r.h, live, r.ret)
        /\ op' = "undo"
        /\ before' = [len |-> Len(hm.history), idx |-> hm.current_index]
        /\ UNCHANGED given

HRedo ==
    LET r == redo(heap, hm)
    IN  /\ HCommit(r.heap, r.h, live, r.ret)
        /\ op' = "redo"
        /\ before' = [len |-> Len(hm.history), idx |-> hm.current_index]
        /\ UNCHANGED given

\* The client changes its current list in place (current_data.append).
HAppendLive ==
    \E e \in HEntries :
        /\ Append(heap[live], e) \in HLists
        /\ HCommit(ListAppend(heap, live, e), hm, live, ret)
        /\ op' = "client"
        /\ UNCHANGED <<before, given>>

\* The client changes the list undo/redo gave it in place.
HAppendReturned ==
    \E e \in HEntries :
        /\ ret # None
        /\ Append(heap[ret], e) \in HLists
        /\ HCommit(ListAppend(heap, ret, e), hm, live, ret)
        /\ op' = "client"
        /\ UNCHANGED <<before, given>>

\* MainPhraseTable.undo/redo: self.current_data = state
HAdopt ==
    /\ ret # None
    /\ HCommit(heap, hm, ret, None)
    /\ op' = "client"
    /\ UNCHANGED <<before, given>>

\* A transformation: self.current_data = data, a new list.
HReplace ==
    \E vals \in HLists :
        LET a == Alloc(heap, vals)
        IN  /\ HCommit(a.heap, hm, a.ref, ret)
            /\ op' = "client"
            /\ UNCHANGED <<before, given>>

HNext ==
    \/ HSetInitialState
    \/ HAddState
    \/ HUndo
    \/ HRedo
    \/ HAppendLive
    \/ HAppendReturned
    \/ HAdopt
    \/ HReplace

SpecHistory == HInit /\ [][HNext]_vars

\* ================================================================ claims
\* The value of the list a call returned (<<>> marks "nothing" only where
\* ret is None, which the formulas test first).
Returned(hp, rt) == hp[rt]

\* C1: after set_initial_state(S0), add_state(S1), ..., add_state(Sn) within
\* the capacity the history holds exactly S0..Sn; every undo that can move
\* puts the cursor one snapshot back and returns a copy equal to the snapshot
\* it lands on, every redo that can move puts it one forward and returns a
\* copy equal to that snapshot (after S0, S1, S2: undo gives S1, redo S2).
C1_Traversal ==
    [][/\ (op' = "undo" /\ hm.current_index > 0) =>
             /\ hm'.current_index = hm.current_index - 1
             /\ ret' # None
             /\ ret' \notin Range(hm'.history)
             /\ Returned(heap', ret') = SnapVals(heap, hm)[hm.current_index]
       /\ (op' = "redo" /\ hm.current_index < Len(hm.history) - 1) =>
             /\ hm'.current_index = hm.current_index + 1
             /\ ret' # None
             /\ ret' \notin Range(hm'.history)
             /\ Returned(heap', ret') = SnapVals(heap, hm)[hm.current_index + 2]
       /\ given'.ok =>
             /\ SnapVals(heap', hm') = given'.vals
             /\ (op' \in {"undo", "redo"} /\ ret' # None) =>
                    Returned(heap', ret') = given'.vals[hm'.current_index + 1]
      ]_vars

\* C1 witness: S0, S1, S2 all different, undone to S1 and redone to S2.
C1_Witness ==
    /\ given.ok /\ Len(given.vals) = 3
    /\ Cardinality(Range(given.vals)) = 3
    /\ op = "redo" /\ before.idx = 1 /\ hm.current_index = 2
    /\ ret # None /\ heap[ret] = given.vals[3]

\* C2: add_state(S) with the cursor before the last snapshot removes every
\* snapshot after the cursor, makes a copy of S the last snapshot with the
\* cursor on it, keeps the snapshots up to the old cursor, and leaves
\* nothing to redo.
C2_AddStateDiscardsBranch ==
    [][(op' = "add_state" /\ hm.current_index >= 0
          /\ hm.current_index < Len(hm.history) - 1) =>
            /\ SnapVals(heap', hm') =
                   Append(SubSeq(SnapVals(heap, hm), 1, hm.current_index + 1),
                          heap[live])
            /\ hm'.current_index = Len(hm'.history) - 1
            /\ hm'.history[Len(hm'.history)] # live'
            /\ ~can_redo(hm')
            /\ redo(heap', hm').ret = None
            /\ redo(heap', hm').h = hm'
      ]_vars

\* C2 witness: add_state was called with two snapshots after the cursor.
C2_Witness ==
    /\ op = "add_state" /\ before.idx = 0 /\ before.len = 3
    /\ Len(hm.history) = 2 /\ hm.current_index = 1

\* C3: the history never holds more than max_history snapshots; add_state
\* on a full history with the cursor on the last snapshot evicts exactly the
\* oldest one, keeps the order of the others, ends with the cursor on the
\* new last snapshot, and undo then returns the snapshot added before it.
C3_Capacity ==
    [][/\ Len(hm'.history) <= max_history
       /\ (op' = "add_state" /\ Len(hm.history) = max_history
             /\ hm.current_index = max_history - 1) =>
            /\ SnapVals(heap', hm') = Append(Tail(SnapVals(heap, hm)), heap[live])
            /\ hm'.current_index = max_history - 1
            /\ LET u == undo(heap', hm')
               IN  /\ u.ret # None
                   /\ u.heap[u.ret] = SnapVals(heap, hm)[max_history]
      ]_vars

\* C3 witness: add_state was called on a full history, cursor on the last.
C3_Witness ==
    /\ op = "add_state" /\ before.len = max_history
    /\ before.idx = max_history - 1
    /\ Len(hm.history) = max_history

\* C4: can_undo holds exactly when the cursor is above 0 and can_redo exactly
\* when it is below length-1; undo without can_undo and redo without can_redo
\* return nothing and leave the snapshots and the cursor as they were.
C4_Boundaries ==
    [][/\ can_undo(hm') <=> hm'.current_index > 0
       /\ can_redo(hm') <=> hm'.current_index < Len(hm'.history) - 1
       /\ (op' = "undo" /\ ~can_undo(hm)) =>
             /\ ret' = None
             /\ hm'.current_index = hm.current_index
             /\ SnapVals(heap', hm') = SnapVals(heap, hm)
       /\ (op' = "redo" /\ ~can_redo(hm)) =>
             /\ ret' = None
             /\ hm'.current_index = hm.current_index
             /\ SnapVals(heap', hm') = SnapVals(heap, hm)
       /\ (op' = "undo" /\ can_undo(hm)) => ret' # None
       /\ (op' = "redo" /\ can_redo(hm)) => ret' # None
      ]_vars

\* C4 witness: redo was called at the end of a history of several snapshots.
C4_Witness ==
    /\ op = "redo" /\ before.len = 3 /\ before.idx = 2 /\ ret = None

\* C5: every stored snapshot and every returned list is an object of its
\* own: no snapshot is the client's current list, the returned list or
\* another snapshot, and a change made in place to the current or to the
\* returned list changes no stored snapshot.
C5_SnapshotIndependence ==
    [][/\ live' \notin Range(hm'.history)
       /\ ret' \notin Range(hm'.history)
       /\ Cardinality(Range(hm'.history)) = Len(hm'.history)
       /\ op' = "client" =>
             /\ SnapVals(heap', hm') = SnapVals(heap, hm)
             /\ hm'.current_index = hm.current_index
      ]_vars

\* C5 witness: the list undo returned was changed in place and now differs
\* from the snapshot it was copied from, and so was the current list that had
\* been stored.
C5_Witness ==
    /\ op = "client" /\ ret # None
    /\ heap[ret] # heap[hm.history[hm.current_index + 1]]
    /\ Len(hm.history) = 3
    /\ heap[live] # heap[hm.history[3]]

\* C6: once set_initial_state has been called, the history holds at least
\* one snapshot and 0 <= current_index <= length-1, whatever add_state, undo,
\* redo and set_initial_state calls follow.
C6_HistoryInvariant ==
    given.populated =>
        /\ Len(hm.history) >= 1
        /\ 0 <= hm.current_index
        /\ hm.current_index <= Len(hm.history) - 1

\* C6 witness: a populated history after an undo at its first snapshot.
C6_Witness ==
    /\ given.populated /\ op = "undo" /\ before.idx = 0
    /\ Len(hm.history) = 1

\* What a session holds besides the histories.
SessionData(v) ==
    [lists |-> [k \in 1..Len(v.lists) |->
                   [name |-> v.lists[k].name, phrases |-> v.lists[k].phrases,
                    stop_words |-> v.lists[k].stop_words,
                    folders |-> v.lists[k].folders]],
     gstop |-> v.gstop, gfold |-> v.gfold, index |-> v.index]

\* A load of the session file as written that came back without an error.
Reloaded == event.name = "load_session" /\ event.kind = "ok" /\ event.ok

\* C7: saving a session and loading it back restores, for every list
\* including the active one, the whole undo/redo snapshot stack and the
\* cursor position it had when the session was saved.
C7_RestoresHistory ==
    Reloaded =>
        LET v == View(W) IN
        /\ Len(v.lists) = Len(session.lists)
        /\ \A k \in 1..Len(session.lists) :
               v.lists[k].history = session.lists[k].history

\* C8: a load_session that fails - the stream cannot be read, is malformed,
\* or an error is raised while lists and tabs are rebuilt - leaves every
\* list with its phrases, stop words, folders and history, the global stop
\* words and folders and the active list exactly as they were before.
C8_LoadAllOrNothing ==
    (event.name = "load_session" /\ ~event.ok) => View(W) = event.pre

\* C9: save followed by load restores every list's name, phrases, local
\* stop words and folders, the global stop words, the global folders and
\* the active-list index, each equal to its value at save time.
C9_DataRoundTrip ==
    Reloaded => SessionData(View(W)) = SessionData(session)

\* Two texts are the same up to case and surrounding blanks.
SameText(a, b) == strip(lower(a)) = strip(lower(b))

\* C10: moving selected entries of the current list into a folder, local or
\* global, leaves each selected (text, frequency) in the target folder and
\* removes from the list every entry whose trimmed, case-insensitive text
\* equals the text of a selected entry; the other entries stay, in their
\* original order.
C10_MoveSemantics ==
    event.name = "move_to_folder" =>
        LET t == tab_index + 1
            k == ListAt(W, phrase_tabs[t].name)
            kept(e) == \A sel \in Range(event.phrases) : ~SameText(e[1], sel[1])
            rest == SelectSeq(event.src, kept)
            target == IF event.is_global THEN global_folders[event.folder]
                      ELSE phrase_lists[k].folders[event.folder]
            shown == IF event.is_global THEN general_folders[event.folder]
                     ELSE folders_widget[event.folder]
        IN  /\ \A sel \in Range(event.phrases) :
                   sel \in Range(target) /\ sel \in Range(shown)
            /\ heap[phrase_lists[k].phrases] = rest
            /\ heap[phrase_tabs[t].current_data] = rest

\* C10 witness: of the three entries "a ", "b", "A" the row "A" was moved;
\* "a " went with it and "b" is what the list still holds.
C10_Witness ==
    /\ event.name = "move_to_folder"
    /\ event.src = FolderBatch
    /\ event.phrases = << << <<"A">>, 0 >> >>
    /\ heap[phrase_tabs[tab_index + 1].current_data] = << << <<"b">>, 0 >> >>

\* C11: a move whose folder-add step does not take effect (the named folder
\* is not in its scope any more) removes nothing: the phrases and the
\* history of every list are what they were when the move was requested.
C11_MoveAtomic ==
    (event.name = "move_after_load" /\ ~event.took_effect) =>
        View(W).lists = event.pre.lists

\* The phrases and the history of every list, the current tab's taken from
\* its table.
ListsContent(v) ==
    [k \in 1..Len(v.lists) |->
        [name |-> v.lists[k].name, phrases |-> v.lists[k].phrases,
         history |-> v.lists[k].history]]

\* C12: copying selected entries of the current list into a folder, local
\* or global, leaves each of them in the target folder and leaves the list
\* as it was: its phrases, their order, its history snapshots and cursor.
C12_CopySemantics ==
    event.name = "copy_to_folder" =>
        /\ ListsContent(View(W)) = ListsContent(event.pre)
        /\ \A sel \in Range(event.phrases) :
               IF event.is_global
               THEN /\ sel \in Range(global_folders[event.folder])
                    /\ sel \in Range(general_folders[event.folder])
               ELSE /\ sel \in Range(folders_widget[event.folder])
                    /\ sel \in Range(View(W).lists[tab_index + 1].folders[event.folder])

\* C12 witness: a row was copied into the global folder from a list that
\* has a move behind it (two snapshots in its history).
C12_Witness ==
    /\ event.name = "copy_to_folder" /\ event.is_global
    /\ Len(hists[phrase_tabs[tab_index + 1].history].history) = 2

\* The names of the lists of a workspace, and what a list holds locally.
ListNames(v) == {v.lists[k].name : k \in 1..Len(v.lists)}

LocalScope(v, name) ==
    LET k == CHOOSE j \in 1..Len(v.lists) : v.lists[j].name = name
    IN  [stop_words |-> v.lists[k].stop_words, folders |-> v.lists[k].folders]

\* The list an edit of the local widgets goes to: the current tab's.
CurrentName == IF tab_index >= 0 THEN phrase_tabs[tab_index + 1].name ELSE <<>>

\* C13: a list's local folders and local stop words change only by edits made
\* while it is the current list: no edit of another list's folders or stop
\* words, no tab switch and no closing of another list's tab changes them.
C13_LocalIsolation ==
    [][\A name \in ListNames(View(W)) \cap ListNames(View(W)') :
          (name # CurrentName \/ event'.name \in {"select_tab", "delete_tab"})
              => LocalScope(View(W)', name) = LocalScope(View(W), name)
      ]_vars

\* The handlers C14 speaks of.
ScopeEvents ==
    {"add_stop_word", "add_global_stop_word", "select_tab", "delete_tab",
     "load_session"}

\* C14: after an edit of the global or of a local stop-word set, a tab
\* switch, a tab close or a session load, the stop-word set by which each
\* open list (one whose phrases have arrived) computes its visible rows is
\* that list's local stop words united with the global stop words.
C14_EffectiveStopWords ==
    (event.name \in ScopeEvents /\ ~crashed) =>
        \A t \in 1..Len(phrase_tabs) :
            (\A l \in loaders : l.name # phrase_tabs[t].name) =>
                /\ HasList(W, phrase_tabs[t].name)
                /\ phrase_tabs[t].stop_words =
                       LocalScope(View(W), phrase_tabs[t].name).stop_words
                           \cup global_stop_words

\* The rows the filter pipeline is to show for a table with the settings of
\* tab: the entries of data, in order, that no stop word excludes and that,
\* when a term is searched in only-matches mode, match the term.
Visible(tab, data) ==
    LET Keep(e) ==
            /\ filter_by_stop_words(<<e>>, tab.stop_words) = <<e>>
            /\ (tab.search_text # <<>> /\ tab.search_only_matches)
                   => is_match(tab, e[1])
    IN  SelectSeq(data, Keep)

C17_CyclicNavigation ==
    event.name \in {"next_search", "prev_search"} =>
        LET tab == phrase_tabs[tab_index + 1]
            matches == event.matches
            k == Len(matches)
            n == Len(event.trail)
        IN  IF k = 0
            THEN event.ret = <<0, 0>> /\ event.row = {}
            ELSE /\ event.ret[2] = k
                 /\ event.ret[1] \in 1..k
                 /\ event.row = {matches[event.ret[1]]}
                 /\ \A r \in event.row : is_match(tab, tab.rows[r + 1][1])
                 /\ (event.name = "next_search" /\ event.was = {matches[k]})
                        => event.row = {matches[1]}
                 /\ (event.name = "prev_search" /\ event.was = {matches[1]})
                        => event.row = {matches[k]}
                 /\ n > k => event.trail[n] = event.trail[n - k]

\* A next step from the last of three matches, after a full round.
C17_Witness ==
    /\ event.name = "next_search"
    /\ Len(event.matches) = 3
    /\ event.was = {event.matches[3]}
    /\ Len(event.trail) = MaxTrail

\* The whitespace-separated tokens of text, as <<first, last>> positions.
TokenSpans(text) ==
    {sp \in (1..Len(text)) \X (1..Len(text)) :
        /\ sp[1] <= sp[2]
        /\ \A k \in sp[1]..sp[2] : text[k] # " "
        /\ (sp[1] = 1 \/ text[sp[1] - 1] = " ")
        /\ (sp[2] = Len(text) \/ text[sp[2] + 1] = " ")}

Tokens(text) == {SubSeq(text, sp[1], sp[2]) : sp \in TokenSpans(text)}

KeyOf(phrase) ==
    LET text == lower(phrase)
        long == {sp \in TokenSpans(text) : sp[2] - sp[1] + 1 > 3}
        best == CHOOSE sp \in long : \A o \in long :
                    \/ o[2] - o[1] < sp[2] - sp[1]
                    \/ (o[2] - o[1] = sp[2] - sp[1] /\ o[1] >= sp[1])
    IN  IF long = {} THEN Other ELSE SubSeq(text, best[1], best[2])

\* C19: group_phrases puts every entry in the group named by the longest
\* token (of more than 3 characters) of its lowercased text, the first one
\* among the longest ("white house" goes under "white"); an entry without
\* such a token goes to the one reserved group.
C19_GroupKey ==
    event.name = "group_phrases" =>
        /\ \A i \in 1..Len(event.phrases) :
               \E g \in 1..Len(event.result) :
                   /\ event.result[g][1] = KeyOf(event.phrases[i][1])
                   /\ event.phrases[i] \in Range(event.result[g][2])
        /\ \A g, h \in 1..Len(event.result) :
               event.result[g][1] = event.result[h][1] => g = h
        /\ event.phrases = <<<<WhiteHouse, 1>>>>
               => event.result = <<<<White, <<<<WhiteHouse, 1>>>>>>>>

\* Two longest tokens of the same length: the first one names the group.
C19_Witness ==
    /\ event.name = "group_phrases"
    /\ event.phrases = <<<<WhiteHouse, 1>>>>
    /\ event.result[1][1] = White

\* C20: the groups are listed in the order in which their keys first came
\* up, every group holds the entries of its key in input order, and every
\* entry is in the groups as often as in the input.
C20_OrderedPartition ==
    event.name = "group_phrases" =>
        LET phrases == event.phrases
            result  == event.result
            InGroup(g) == LET Same(e) == KeyOf(e[1]) = result[g][1]
                          IN  SelectSeq(phrases, Same)
        IN  /\ [g \in 1..Len(result) |-> result[g][1]] =
                   Dedup([i \in 1..Len(phrases) |-> KeyOf(phrases[i][1])])
            /\ \A g \in 1..Len(result) : result[g][2] = InGroup(g)
            /\ \A e \in Range(phrases) :
                   Cardinality({i \in 1..Len(phrases) : phrases[i] = e}) =
                   Cardinality({p \in (1..Len(result)) \X (1..Len(phrases)) :
                                  /\ p[2] <= Len(result[p[1]][2])
                                  /\ result[p[1]][2][p[2]] = e})

\* The same entry twice with an entry of another group between them.
C20_Witness ==
    /\ event.name = "group_phrases"
    /\ Len(event.phrases) = 3
    /\ event.phrases[1] = event.phrases[3]
    /\ KeyOf(event.phrases[2][1]) # KeyOf(event.phrases[1][1])
    /\ Len(event.result) = 2

\* The text two entries are compared by when duplicates are removed.
DedupKey(e) == strip(lower(e[1]))

\* C21: remove_duplicates applied to what remove_duplicates returned gives
\* it back unchanged, and the texts of the result (trimmed, case ignored)
\* are those of the input in the order in which they are first seen.
C21_DedupIdempotent ==
    event.name = "remove_duplicates" =>
        /\ event.prior.name = "remove_duplicates" => event.result = event.phrases
        /\ [i \in 1..Len(event.result) |-> DedupKey(event.result[i])] =
               Dedup([i \in 1..Len(event.phrases) |-> DedupKey(event.phrases[i])])

\* The second of two calls, the first of which removed something.
C21_Witness ==
    /\ event.name = "remove_duplicates"
    /\ event.prior.name = "remove_duplicates"
    /\ Len(event.phrases) = 2
    /\ Len(event.prior.phrases) = 3

\* C22: for each class of entries with the same trimmed, case-ignored text
\* the result holds exactly one entry, the first of the class with its text
\* as it stands in the input and with its frequency.
C22_KeepsFirstExactly ==
    event.name = "remove_duplicates" =>
        \A i \in 1..Len(event.phrases) :
            LET first == CHOOSE j \in 1..i :
                             /\ DedupKey(event.phrases[j]) = DedupKey(event.phrases[i])
                             /\ \A k \in 1..(j - 1) :
                                    DedupKey(event.phrases[k]) # DedupKey(event.phrases[i])
                same == {r \in 1..Len(event.result) :
                            DedupKey(event.result[r]) = DedupKey(event.phrases[i])}
            IN  /\ Cardinality(same) = 1
                /\ \A r \in same : event.result[r] = event.phrases[first]

\* C23: sorting alphabetically in descending and then in ascending order
\* gives, entry for entry, what sorting in ascending order gives.
C23_SortRoundTrip ==
    (/\ event.name = "sort_phrases_alphabetically" /\ ~event.reverse
     /\ event.prior.name = "sort_phrases_alphabetically" /\ event.prior.reverse)
    => event.result = sort_phrases_alphabetically(event.prior.phrases, FALSE)

\* A round trip over entries with equal lowercased texts that the
\* descending sort had to move.
C23_Witness ==
    /\ event.name = "sort_phrases_alphabetically" /\ ~event.reverse
    /\ event.prior.name = "sort_phrases_alphabetically" /\ event.prior.reverse
    /\ event.phrases # event.prior.phrases
    /\ \E i, j \in 1..Len(event.result) :
           /\ i < j
           /\ event.result[i] # event.result[j]
           /\ lower(event.result[i][1]) = lower(event.result[j][1])

\* C24: remove_duplicates and then sort_phrases_by_frequency (descending)
\* give one entry for each text of the loaded sequence (trimmed, case
\* ignored) with the frequency of its first occurrence, in non-increasing
\* frequency, entries of equal frequency in first-seen order; Apple 100,
\* apple 5, Banana 50 give Apple 100, Banana 50.
C24_DedupThenSort ==
    (/\ event.name = "sort_phrases_by_frequency" /\ event.reverse
     /\ event.prior.name = "remove_duplicates")
    => LET loaded == event.prior.phrases
           result == event.result
           First(key) == CHOOSE j \in 1..Len(loaded) :
                             /\ DedupKey(loaded[j]) = key
                             /\ \A k \in 1..(j - 1) : DedupKey(loaded[k]) # key
       IN  /\ \A i, j \in 1..Len(result) :
                  DedupKey(result[i]) = DedupKey(result[j]) => i = j
           /\ {DedupKey(result[i]) : i \in 1..Len(result)} =
                  {DedupKey(loaded[i]) : i \in 1..Len(loaded)}
           /\ \A i \in 1..Len(result) :
                  result[i][2] = loaded[First(DedupKey(result[i]))][2]
           /\ \A i, j \in 1..Len(result) :
                  i < j => /\ result[i][2] >= result[j][2]
                           /\ result[i][2] = result[j][2]
                                => First(DedupKey(result[i])) < First(DedupKey(result[j]))
           /\ loaded = <<<<Apple, 100>>, <<apple, 5>>, <<Banana, 50>>>>
                  => result = <<<<Apple, 100>>, <<Banana, 50>>>>

\* A duplicate was removed and the sort moved an entry.
C24_Witness ==
    /\ event.name = "sort_phrases_by_frequency" /\ event.reverse
    /\ event.prior.name = "remove_duplicates"
    /\ Len(event.phrases) < Len(event.prior.phrases)
    /\ event.result # event.phrases

\* Every folder the window holds: in the two widgets, in the globals, in
\* the lists and in the tables.
AllFolders ==
    LET dicts == {folders_widget, general_folders, global_folders}
                 \cup {phrase_lists[k].folders : k \in 1..Len(phrase_lists)}
                 \cup {phrase_tabs[t].folders : t \in 1..Len(phrase_tabs)}
                 \cup {phrase_tabs[t].global_folders : t \in 1..Len(phrase_tabs)}
    IN  UNION {{d[n] : n \in DOMAIN d} : d \in dicts}

RECURSIVE AddedOnce(_, _)
\* A folder after adding the entries one by one, each a no-op when the
\* folder holds the tuple and appended at the end otherwise.
AddedOnce(f, phrases) ==
    IF phrases = <<>> THEN f
    ELSE AddedOnce(IF Head(phrases) \in Range(f) THEN f ELSE Append(f, Head(phrases)),
                   Tail(phrases))

\* C25: adding a (text, frequency) tuple a folder holds already changes
\* nothing and any other tuple is appended at the end, so that no folder
\* ever holds the same tuple twice, whatever was copied, moved, removed or
\* cleared; entries of one text with different frequencies are both kept.
C25_FolderAddIdempotent ==
    /\ \A f \in AllFolders : \A i, j \in 1..Len(f) : f[i] = f[j] => i = j
    /\ event.name = "copy_to_folder" =>
           IF event.is_global
           THEN general_folders[event.folder] =
                    AddedOnce(event.pre.gfold[event.folder], event.phrases)
           ELSE folders_widget[event.folder] =
                    AddedOnce(event.pre.lists[tab_index + 1].folders[event.folder],
                              event.phrases)

\* C25 witness: ("a", 1) was copied into a folder that held ("a", 1) and
\* ("a", 2) already, and the folder holds these two.
C25_Witness ==
    /\ event.name = "copy_to_folder" /\ ~event.is_global
    /\ event.phrases = << << <<"a">>, 1 >> >>
    /\ Len(event.pre.lists[tab_index + 1].folders[event.folder]) = 2
    /\ Range(folders_widget[event.folder]) = Range(OpsBatch)

\* C26: creating a folder under a name its scope holds already is refused
\* with a warning and leaves every folder of both scopes as it was; a name
\* that differs from the existing ones, if only in letter case or in its
\* scope, gives a new empty folder next to the others.
C26_NameCollision ==
    event.name = "create_folder" =>
        LET before_ == IF event.is_global THEN event.pre.general_folders
                       ELSE event.pre.folders_widget
            after == IF event.is_global THEN general_folders ELSE folders_widget
            other == IF event.is_global THEN folders_widget ELSE general_folders
            other_before == IF event.is_global THEN event.pre.folders_widget
                            ELSE event.pre.general_folders
        IN  /\ other = other_before
            /\ IF event.folder \in DOMAIN before_
               THEN /\ event.warned
                    /\ after = before_
                    /\ global_folders = event.pre.global_folders
               ELSE /\ ~event.warned
                    /\ DOMAIN after = DOMAIN before_ \cup {event.folder}
                    /\ after[event.folder] = <<>>
                    /\ \A n \in DOMAIN before_ : after[n] = before_[n]

\* C26 witness: a second local folder "F" was refused while the local "F"
\* holds a phrase, next to a local "f" and a global "F".
C26_Witness ==
    /\ event.name = "create_folder" /\ event.warned /\ ~event.is_global
    /\ event.folder = "F"
    /\ folders_widget["F"] # <<>>
    /\ "f" \in DOMAIN folders_widget
    /\ "F" \in DOMAIN general_folders

\* A file fails when its reading or parsing raises.
Fails(file) == ~ReadFile(<<>>, file).ok

RECURSIVE WholeFiles(_)
\* The entries of the files that do not fail, file after file.
WholeFiles(files) ==
    IF files = <<>> THEN <<>>
    ELSE (IF Fails(Head(files)) THEN <<>> ELSE ReadFile(<<>>, Head(files)).all_phrases)
         \o WholeFiles(Tail(files))

\* C27: the batch a loader emits holds all entries of every file that was
\* read without failure and no entry of a file that failed, and one error
\* was emitted for each failed file.
C27_PerFileErrors ==
    event.name = "finished" =>
        /\ event.all_phrases = WholeFiles(event.file_paths)
        /\ Len(event.errors) =
               Cardinality({i \in 1..Len(event.file_paths) : Fails(event.file_paths[i])})

\* C28: a running loader writes to no list; when its batch is merged into
\* the list, the table's data from before the merge is a snapshot of the
\* history, the snapshots recorded before the merge are still there, and
\* the cursor stands after a snapshot, so that the merge can be undone.
C28_MergeDiscipline ==
    event.name = "on_files_loaded" =>
        LET t == CHOOSE i \in 1..Len(phrase_tabs) : phrase_tabs[i].name = event.list
            was == event.pre.tables[t]
            now == TableData(W).tables[t]
        IN  /\ was.current_data \in Range(now.history.history)
            /\ \/ Len(now.history.history) = max_history
               \/ \A i \in 1..(was.history.current_index + 1) :
                      was.history.history[i] \in Range(now.history.history)
            /\ now.history.current_index > 0

\* Every entry the window holds: of the lists, of the tables, of the
\* snapshots of their histories.
AllEntries ==
    LET d == TableData(W)
        of(x) == Range(x.current_data)
                 \cup UNION {Range(x.history.history[i]) : i \in 1..Len(x.history.history)}
    IN  UNION {of(d.tables[t]) : t \in 1..Len(d.tables)}
        \cup UNION {Range(d.lists[k].phrases)
                    \cup UNION {Range(d.lists[k].history.history[i]) :
                                   i \in 1..Len(d.lists[k].history.history)} :
                    k \in 1..Len(d.lists)}

\* C30: every entry of every list, table, snapshot and folder has a
\* frequency that is not negative.
C30_NonNegativeFrequency ==
    /\ \A e \in AllEntries : e[2] >= 0
    /\ \A f \in AllFolders : \A i \in 1..Len(f) : f[i][2] >= 0

\* C29: an action on the current table (remove duplicates, sort, delete
\* selected, move back from a folder) adds a snapshot to the table's
\* history exactly when it changes the table's data: the history after
\* the action differs from the history before it if and only if the data
\* does.
C29_PushWithMutation ==
    event.name \in {"remove_duplicates", "sort_by_frequency", "delete_selected",
                    "phrases_back"} =>
        LET was == event.pre.tables[tab_index + 1]
            now == TableData(W).tables[tab_index + 1]
        IN  (now.history # was.history) <=> (now.current_data # was.current_data)

\* C31: no two lists have the same name; a load under a stem that is taken
\* gets the first free name "stem (i)"; create_new_tab with a name that is
\* taken changes nothing; a rename to the name of another list is refused
\* with a warning and leaves the lists and the tab as they were.
C31_UniqueListNames ==
    /\ \A i, j \in 1..Len(phrase_lists) :
           phrase_lists[i].name = phrase_lists[j].name => i = j
    /\ event.name = "load_files" =>
           /\ HasList(W, event.list)
           /\ \A i \in 0..(event.list[2] - 1) : HasList(W, <<event.list[1], i>>)
    /\ (event.name = "create_new_tab" /\ event.tab \in ListNames(event.pre)) =>
           /\ View(W) = event.pre
           /\ Len(phrase_tabs) = event.tabs
    /\ (/\ event.name = "rename_tab"
        /\ event.new_name # event.old_name
        /\ event.new_name \in ListNames(event.pre)) =>
           /\ event.warned
           /\ View(W) = event.pre
           /\ phrase_tabs[event.index + 1].name = event.old_name

\* C31 witness: with the lists "A" and "A (1)" loaded, the rename of "A"
\* to "A (1)" was refused.
C31_Witness ==
    /\ event.name = "rename_tab" /\ event.warned
    /\ event.old_name = <<"A", 0>> /\ event.new_name = <<"A", 1>>
    /\ \A k \in 1..2 : event.pre.lists[k].phrases # <<>>

\* C32: transliterate_phrases returns as many entries as it was given, in
\* their order and with their frequencies; forward, an entry whose text
\* changed contains a Cyrillic letter; reverse, an entry whose text
\* changed contains no Cyrillic letter; an entry on which the conversion
\* raises is returned as it is.
C32_ScriptGuard ==
    event.name = "transliterate_phrases" =>
        /\ Len(event.result) = Len(event.phrases)
        /\ \A i \in 1..Len(event.phrases) :
               LET given_ == event.phrases[i]
                   got == event.result[i]
                   cyr == \E j \in 1..Len(given_[1]) : IsCyrillic(given_[1][j])
               IN  /\ got[2] = given_[2]
                   /\ got[1] # given_[1] => (IF event.reverse THEN ~cyr ELSE cyr)
                   /\ given_[1] \in event.raises => got = given_

\* C33: an undo made right after an action of the table (the first since
\* the load or a later one) leaves the table's data as it was immediately
\* before that action.
C33_UndoRevertsLast ==
    (event.name = "undo_step" /\ event.action \in TableActions) =>
        TableData(W).tables[tab_index + 1].current_data
            = event.pre.tables[tab_index + 1].current_data

\* C34: an undo made right after an action of the table and a redo made
\* right after that undo leave the table's data as it was before the undo.
C34_UndoRedoIdentity ==
    (event.name = "redo_step" /\ event.action \in TableActions) =>
        TableData(W).tables[tab_index + 1].current_data
            = event.pre.tables[tab_index + 1].current_data

\* C35: after an undo or a redo that moved the cursor of the history the
\* table's data is the snapshot the cursor stands at, empty or not.
C35_CursorAndData ==
    event.name \in {"undo_step", "redo_step"} =>
        LET was == event.at.tables[tab_index + 1]
            now == TableData(W).tables[tab_index + 1]
        IN  now.history.current_index # was.history.current_index =>
                now.current_data = now.history.history[now.history.current_index + 1]

\* C36: a click on another tab followed at once by a click back leaves
\* the data of the first tab's table, the snapshots of its history and the
\* cursor of its history as they were before the first click.
C36_SwitchKeepsHistory ==
    (event.name = "switch_tab" /\ event.back) =>
        TableData(W).tables[event.index + 1] = event.pre.tables[event.index + 1]

\* C37: every entry that a move to a folder takes out of the table is in
\* that folder afterwards, and every selected entry that a move back takes
\* out of its folder is in the table afterwards.
C37_MoveKeepsEntries ==
    /\ event.name = "move_to_folder" =>
           LET list == heap[phrase_tabs[tab_index + 1].current_data]
               folder == IF event.is_global THEN general_folders[event.folder]
                         ELSE folders_widget[event.folder]
           IN  \A i \in 1..Len(event.src) :
                   event.src[i] \notin Range(list) => event.src[i] \in Range(folder)
    /\ (event.name = "phrases_back" /\ event.is_move /\ tab_index >= 0) =>
           LET list == heap[phrase_tabs[tab_index + 1].current_data]
               folders == IF event.is_global THEN general_folders ELSE folders_widget
           IN  \A i \in 1..Len(event.selected) :
                   LET entry == <<event.selected[i][2], event.selected[i][3]>>
                   IN  entry \notin Range(folders[event.selected[i][1]]) =>
                           entry \in Range(list)

\* C38: the reserved group of group_phrases holds only entries without a
\* token of more than 3 characters, and no group holds an entry with such
\* a token next to an entry without one.
C38_ReservedExclusive ==
    event.name = "group_phrases" =>
        LET Qualifies(e) == \E tk \in Tokens(lower(e[1])) : Len(tk) > 3
        IN  \A g \in 1..Len(event.result) :
                /\ event.result[g][1] = Other =>
                       \A e \in Range(event.result[g][2]) : ~Qualifies(e)
                /\ \A e, f \in Range(event.result[g][2]) :
                       Qualifies(e) = Qualifies(f)

\* C39: delete_phrase on a row takes exactly one entry out of the data of
\* the table, the entry the row shows, and keeps every other entry in
\* order.
C39_DeleteOneRow ==
    event.name = "delete_phrase" =>
        LET data == heap[phrase_tabs[tab_index + 1].current_data]
        IN  \E i \in 1..Len(event.src) :
                /\ event.src[i] = event.shown
                /\ data = SubSeq(event.src, 1, i - 1)
                              \o SubSeq(event.src, i + 1, Len(event.src))

\* C40: the completion of a load raises no unhandled error, whatever was
\* done to the tabs while the loader ran, and leaves the phrases and the
\* history of every list but the one of its name as they were.
C40_LoadTolerant ==
    event.name = "on_files_loaded" =>
        /\ ~crashed
        /\ \A k \in 1..Len(phrase_lists) :
               phrase_lists[k].name # event.list =>
                   TableData(W).lists[k] = event.pre.lists[k]

====
